---- MODULE Spec2Model ----
(***************************************************************************)
(* Model of the knowledge-grounded answering path (AIAgentService,         *)
(* RAGService, OpenAIService.scoreRelevance, AzureSearchService) and of    *)
(* the knowledge-base review workflow (handleKBReviewMessage,              *)
(* KnowledgeBaseReviewService.processReviewResponse, DatabaseService,      *)
(* DailySummaryScheduler).                                                 *)
(*                                                                         *)
(* Numbers: confidences are in hundredths (0.7 is 70), similarity scores   *)
(* in thousandths (0.032 is 32).  Texts that the code scans with           *)
(* toLowerCase()/includes() are sequences of one-character strings.        *)
(***************************************************************************)
EXTENDS Integers, Sequences, FiniteSets, TLC

VARIABLES
    gr,               \* the generateResponse call in flight (locals + position)
    initialized,      \* AzureSearchService.initialized
    indexPresent,     \* whether the search index exists at the provider
    store,            \* documents in the search index, keyed by id
    summaries,        \* rows of dbo.kb_summaries, keyed by summaryId
    now,              \* Date.now()
    today,            \* current calendar date (day number)
    lastSummaryDate,  \* DailySummaryScheduler.lastSummaryDate
    pendingSummary,   \* DailySummaryScheduler.pendingSummary
    last,             \* record of the last handled event (history variable)
    sched,            \* checkAndSendSummary invocations in flight (locals + position)
    dd,               \* the filterDuplicatePairs call in flight (locals + position)
    hs,               \* the hybridSearch call in flight (arguments + result)
    ini,              \* the initialize() calls in flight (position + error)
    up,               \* the upsertDocuments calls in flight (locals + position)
    cur,              \* the generateDailySummary call in flight (locals + position)
    conversationService  \* the ConversationService object (its fields)

\* the state of the operations that are modelled step by step
opsVars == <<sched, dd, hs, ini, up, cur, conversationService>>

vars == <<gr, initialized, indexPresent, store, summaries, now, today,
          lastSummaryDate, pendingSummary, last, opsVars>>

----------------------------------------------------------------------------
(* Bounds *)

MaxTime == 3
MaxDay == 3
MaxInvocations == 2
MaxCallers == 3
MaxUpserters == 2
MaxMessages == 2
MaxRetention == 2
MaxLoaded == 3
MaxReceived == 5

----------------------------------------------------------------------------
(* Strings as character sequences *)

None == "__none__"

UpperToLower ==
    "A" :> "a" @@ "B" :> "b" @@ "C" :> "c" @@ "D" :> "d" @@ "E" :> "e" @@
    "F" :> "f" @@ "G" :> "g" @@ "H" :> "h" @@ "I" :> "i" @@ "J" :> "j" @@
    "K" :> "k" @@ "L" :> "l" @@ "M" :> "m" @@ "N" :> "n" @@ "O" :> "o" @@
    "P" :> "p" @@ "Q" :> "q" @@ "R" :> "r" @@ "S" :> "s" @@ "T" :> "t" @@
    "U" :> "u" @@ "V" :> "v" @@ "W" :> "w" @@ "X" :> "x" @@ "Y" :> "y" @@
    "Z" :> "z"

\* String.prototype.toLowerCase
toLowerCase(s) ==
    [i \in 1..Len(s) |-> IF s[i] \in DOMAIN UpperToLower THEN UpperToLower[s[i]] ELSE s[i]]

\* String.prototype.includes
includes(s, p) ==
    \E i \in 1..(Len(s) - Len(p) + 1) : SubSeq(s, i, i + Len(p) - 1) = p

\* String.prototype.toUpperCase
toUpperCase(s) ==
    [i \in 1..Len(s) |->
        IF \E u \in DOMAIN UpperToLower : UpperToLower[u] = s[i]
        THEN CHOOSE u \in DOMAIN UpperToLower : UpperToLower[u] = s[i]
        ELSE s[i]]

RECURSIVE trimStart(_)
trimStart(s) == IF s # <<>> /\ Head(s) = " " THEN trimStart(Tail(s)) ELSE s

RECURSIVE trimEnd(_)
trimEnd(s) ==
    IF s # <<>> /\ s[Len(s)] = " " THEN trimEnd(SubSeq(s, 1, Len(s) - 1)) ELSE s

\* String.prototype.trim
trim(s) == trimEnd(trimStart(s))

P_i_dont_know == <<"i", " ", "d", "o", "n", "'", "t", " ", "k", "n", "o", "w">>
P_im_not_sure == <<"i", "'", "m", " ", "n", "o", "t", " ", "s", "u", "r", "e">>
P_i_cannot == <<"i", " ", "c", "a", "n", "n", "o", "t">>
P_unable_to == <<"u", "n", "a", "b", "l", "e", " ", "t", "o">>
P_no_information == <<"n", "o", " ", "i", "n", "f", "o", "r", "m", "a", "t", "i", "o", "n">>
P_not_available == <<"n", "o", "t", " ", "a", "v", "a", "i", "l", "a", "b", "l", "e">>

\* the six phrases scanned for in step 7 of generateResponse
UncertaintyPhrases ==
    {P_i_dont_know, P_im_not_sure, P_i_cannot, P_unable_to,
     P_no_information, P_not_available}

NO_ANSWER == <<"N", "O", "_", "A", "N", "S", "W", "E", "R">>

\* Texts the answer-generation oracle may produce
R_answer == <<"U", "s", "e", " ", "t", "h", "e", " ", "d", "e", "s", "k">>
R_dont_know_upper == <<"I", " ", "D", "O", "N", "'", "T", " ", "K", "N", "O", "W">>
R_not_sure == <<"I", "'", "m", " ", "N", "o", "t", " ", "S", "u", "r", "e", ".">>
R_cannot == <<"S", "o", " ", "I", " ", "C", "a", "n", "n", "o", "t">>
R_unable_inside == <<"U", "n", "a", "b", "l", "e", " ", "t", "o", "m", "o", "r", "r", "o", "w">>
R_no_info == <<"N", "o", " ", "i", "n", "f", "o", "r", "m", "a", "t", "i", "o", "n">>
R_not_avail == <<"I", "t", " ", "i", "s", " ", "N", "O", "T", " ", "A", "V", "A", "I", "L", "A", "B", "L", "E">>
R_near_miss == <<"i", " ", "d", "o", " ", "k", "n", "o", "w", " ", "i", "t">>
R_empty == <<>>

GeneratedTexts ==
    {R_answer, R_dont_know_upper, R_not_sure, R_cannot, R_unable_inside,
     R_no_info, R_not_avail, R_near_miss, R_empty, NO_ANSWER}

----------------------------------------------------------------------------
(* Knowledge Store search, as seen by the answering path *)

\* chunk texts (result.answer || result.content) and their lengths
ChunkLen == [c_empty |-> 0, c_short |-> 4, c_mid |-> 7, c_long |-> 40]
Chunks == DOMAIN ChunkLen

\* raw hits of the search provider: score in thousandths, and the chunk text
Hit(s, c) == [score |-> s, chunk |-> c]
RawHitLists ==
    { <<>>,
      <<Hit(500, "c_long")>>,
      <<Hit(31, "c_long")>>,
      <<Hit(32, "c_short"), Hit(10, "c_long")>>,
      <<Hit(0, "c_long"), Hit(40, "c_mid"), Hit(900, "c_empty")>>,
      <<Hit(700, "c_mid"), Hit(600, "c_short")>> }

\* where a search stops: the provider calls that fail on the way
SearchPaths == {"hybrid", "initThrows", "vector", "keyword", "allFail"}

RECURSIVE FilterHits(_, _, _)
\* the loop of hybridSearch: keep hits with score && score >= threshold,
\* stop at topK
FilterHits(hits, topK, threshold) ==
    IF hits = <<>> \/ topK <= 0 THEN <<>>
    ELSE IF Head(hits).score # 0 /\ Head(hits).score >= threshold
         THEN <<Head(hits)>> \o FilterHits(Tail(hits), topK - 1, threshold)
         ELSE FilterHits(Tail(hits), topK, threshold)

\* searchClient.search(..., {top: topK}) returns at most topK hits
Top(hits, topK) == SubSeq(hits, 1, IF Len(hits) < topK THEN Len(hits) ELSE topK)

\* AzureSearchService.hybridSearch with its fallbacks; "throws" when
\* initialize() rejects (it is awaited outside the try block)
hybridSearch(path, raw, topK, threshold) ==
    CASE path = "initThrows" -> [threw |-> TRUE, results |-> <<>>]
      [] path = "hybrid" ->
            [threw |-> FALSE, results |-> FilterHits(Top(raw, topK), topK, threshold)]
      [] path = "vector" ->
            [threw |-> FALSE, results |-> FilterHits(Top(raw, topK), Len(raw), threshold)]
      [] path = "keyword" ->
            [threw |-> FALSE, results |-> Top(raw, topK)]
      [] OTHER -> [threw |-> FALSE, results |-> <<>>]

\* RAGService.findRelevantChunks: chunk texts of the hits, [] on any error
findRelevantChunks(path, raw, maxChunks, minScore) ==
    LET r == hybridSearch(path, raw, maxChunks, minScore)
    IN IF r.threw THEN <<>>
       ELSE [i \in 1..Len(r.results) |-> r.results[i].chunk]

----------------------------------------------------------------------------
(* Relevance scoring *)

\* raw "confidence" values in the scorer's JSON (hundredths); NotANumber
\* stands for a missing or non-numeric field
Num(v) == [isNumber |-> TRUE, val |-> v]
NotANumber == [isNumber |-> FALSE, val |-> 0]
RawConfidences ==
    {Num(-20), Num(0), Num(50), Num(69), Num(70), Num(89), Num(90), Num(100),
     Num(150), NotANumber}

\* raw "relevantChunks" values: an array, a bare string, or missing
RawRelevant ==
    { [kind |-> "array", val |-> <<>>],
      [kind |-> "array", val |-> <<"c_long">>],
      [kind |-> "array", val |-> <<"c_short">>],
      [kind |-> "array", val |-> <<"c_short", "c_short">>],
      [kind |-> "string", val |-> <<"c_mid">>],
      [kind |-> "string", val |-> <<"c_empty">>],
      [kind |-> "missing", val |-> <<>>] }

Min(a, b) == IF a < b THEN a ELSE b
Max(a, b) == IF a > b THEN a ELSE b

FALLBACK_CONFIDENCE == 30

scoreRelevance_Unclamped(knowledgeChunks, outcome) ==
    IF knowledgeChunks = <<>>
    THEN [confidence |-> 0, relevantChunks |-> <<>>]
    ELSE IF outcome.kind = "fail"
    THEN [confidence |-> FALLBACK_CONFIDENCE, relevantChunks |-> <<>>]
    ELSE [confidence |->
              IF outcome.confidence.isNumber THEN outcome.confidence.val ELSE 0,
          relevantChunks |-> outcome.relevant.val]

scoreRelevance_FailOpen(knowledgeChunks, outcome) ==
    IF knowledgeChunks = <<>>
    THEN [confidence |-> 0, relevantChunks |-> <<>>]
    ELSE IF outcome.kind = "fail"
    THEN [confidence |-> 100, relevantChunks |-> knowledgeChunks]
    ELSE [confidence |->
              IF outcome.confidence.isNumber
              THEN Max(0, Min(100, outcome.confidence.val))
              ELSE 0,
          relevantChunks |-> outcome.relevant.val]

\* OpenAIService.scoreRelevance: outcome is "fail" (the call or JSON.parse
\* throws, or times out) or a parsed JSON object
scoreRelevance(knowledgeChunks, outcome) ==
    IF knowledgeChunks = <<>>
    THEN [confidence |-> 0, relevantChunks |-> <<>>]
    ELSE IF outcome.kind = "fail"
    THEN [confidence |-> FALLBACK_CONFIDENCE, relevantChunks |-> <<>>]
    ELSE [confidence |->
              IF outcome.confidence.isNumber
              THEN Max(0, Min(100, outcome.confidence.val))
              ELSE 0,
          relevantChunks |->
              CASE outcome.relevant.kind = "array" -> outcome.relevant.val
                [] outcome.relevant.kind = "string" ->
                     IF ChunkLen[outcome.relevant.val[1]] > 0
                     THEN outcome.relevant.val ELSE <<>>
                [] OTHER -> <<>>]

ScoreOutcomes ==
    [kind : {"ok", "fail"}, confidence : RawConfidences, relevant : RawRelevant]

----------------------------------------------------------------------------
(* AIAgentService.generateResponse *)

CONFIDENCE_THRESHOLD == 70
MIN_CONTEXT_LENGTH == 10
RETRIEVAL_TOP_K == 5
RETRIEVAL_MIN_SCORE == 32

RECURSIVE SumLen(_)
SumLen(cs) == IF cs = <<>> THEN 0 ELSE ChunkLen[Head(cs)] + SumLen(Tail(cs))

JoinLength_Padded(cs) == SumLen(cs) + 2 * Len(cs) + MIN_CONTEXT_LENGTH

\* length of chunks.join("\n\n")
JoinLength(cs) == IF cs = <<>> THEN 0 ELSE SumLen(cs) + 2 * (Len(cs) - 1)

NoKnowledge_Unchecked(chunks) == FALSE

\* step 2: !relevantKnowledge || relevantKnowledge.length === 0
NoKnowledge(chunks) == Len(chunks) = 0

BelowThreshold_Lenient(confidence) == confidence < 50

\* step 4: the confidence gate
BelowThreshold(confidence) == confidence < CONFIDENCE_THRESHOLD

filteredKnowledge_AllChunks(relevanceScore, relevantKnowledge) == relevantKnowledge

\* step 5: the chunks the answer context is joined from
filteredKnowledge(relevanceScore, relevantKnowledge) ==
    IF Len(relevanceScore.relevantChunks) > 0
    THEN relevanceScore.relevantChunks
    ELSE relevantKnowledge

IndicatesUncertainty_CaseSensitive(response) ==
    \E p \in UncertaintyPhrases : includes(response, p)

\* step 7: does the lower-cased response contain an uncertainty phrase
IndicatesUncertainty(response) ==
    \E p \in UncertaintyPhrases : includes(toLowerCase(response), p)

NoText == <<"(none)">>
NoConfidence == -1

GrIdle ==
    [pc |-> "idle", relevantKnowledge |-> <<>>, confidence |-> NoConfidence,
     rawConfidence |-> NotANumber, relevantChunks |-> <<>>,
     context |-> <<>>, response |-> NoText, result |-> NoText,
     searched |-> FALSE, scoreInvoked |-> FALSE, scoreCalled |-> FALSE,
     genCalled |-> FALSE, failed |-> {}]

\* lines 39-52: retrieve, return NO_ANSWER on zero chunks
GRSearch ==
    /\ gr.pc = "idle"
    /\ \E path \in SearchPaths, raw \in RawHitLists :
         /\ path = "initThrows" => ~initialized
         /\ LET chunks == findRelevantChunks(path, raw, RETRIEVAL_TOP_K, RETRIEVAL_MIN_SCORE)
             fails == IF path \in {"initThrows", "allFail"} THEN {"search"} ELSE {}
            IN /\ gr' = IF NoKnowledge(chunks)
                        THEN [gr EXCEPT !.pc = "done", !.result = NO_ANSWER,
                                        !.searched = TRUE, !.failed = fails]
                        ELSE [gr EXCEPT !.pc = "score", !.relevantKnowledge = chunks,
                                        !.searched = TRUE, !.failed = fails]
               /\ initialized' = IF path = "initThrows" THEN initialized ELSE TRUE
               /\ indexPresent' = IF path = "initThrows" THEN indexPresent ELSE TRUE
    /\ UNCHANGED <<store, summaries, now, today, lastSummaryDate, pendingSummary, last>>
    /\ UNCHANGED opsVars

\* lines 54-92: score, gate on the confidence, build the context
GRScore ==
    /\ gr.pc = "score"
    /\ \E outcome \in ScoreOutcomes :
         LET relevanceScore == scoreRelevance(gr.relevantKnowledge, outcome)
             ctx == filteredKnowledge(relevanceScore, gr.relevantKnowledge)
             g == [gr EXCEPT !.scoreInvoked = TRUE,
                             !.scoreCalled = (gr.relevantKnowledge # <<>>),
                             !.confidence = relevanceScore.confidence,
                             !.rawConfidence = IF outcome.kind = "fail"
                                               THEN NotANumber ELSE outcome.confidence,
                             !.relevantChunks = relevanceScore.relevantChunks,
                             !.failed = IF outcome.kind = "fail"
                                        THEN @ \cup {"score"} ELSE @]
         IN gr' = IF BelowThreshold(relevanceScore.confidence)
                  THEN [g EXCEPT !.pc = "done", !.result = NO_ANSWER]
                  ELSE IF JoinLength(ctx) < MIN_CONTEXT_LENGTH
                  THEN [g EXCEPT !.pc = "done", !.result = NO_ANSWER, !.context = ctx]
                  ELSE [g EXCEPT !.pc = "generate", !.context = ctx]
    /\ UNCHANGED <<initialized, indexPresent, store, summaries, now, today,
                   lastSummaryDate, pendingSummary, last>>
    /\ UNCHANGED opsVars

\* lines 94-129: generate, post-check, catch-all
GRGenerate ==
    /\ gr.pc = "generate"
    /\ \/ \E response \in GeneratedTexts :
            gr' = [gr EXCEPT !.pc = "done", !.genCalled = TRUE,
                             !.response = response,
                             !.result = IF IndicatesUncertainty(response)
                                        THEN NO_ANSWER ELSE response]
       \/ gr' = [gr EXCEPT !.pc = "done", !.genCalled = TRUE,
                           !.failed = @ \cup {"generate"},
                           !.result = NO_ANSWER]
    /\ UNCHANGED <<initialized, indexPresent, store, summaries, now, today,
                   lastSummaryDate, pendingSummary, last>>
    /\ UNCHANGED opsVars

\* the caller takes the result; the next query may start
GRReturn ==
    /\ gr.pc = "done"
    /\ gr' = GrIdle
    /\ UNCHANGED <<initialized, indexPresent, store, summaries, now, today,
                   lastSummaryDate, pendingSummary, last>>
    /\ UNCHANGED opsVars

----------------------------------------------------------------------------
(* Question/answer texts: summaryText and the reviewer's changes *)

\* A text is either a list of lines or a text in the single-line format
\* ("Q: .. A: .. Q: .. A: .." on one line).  A line carries the marker it
\* starts with after trim() and the words after the marker; a line without
\* words is an empty sequence.
Ln(tag, body) == [tag |-> tag, body |-> body]
Lines(ls) == [fmt |-> "lines", lines |-> ls]
Single(bs) == [fmt |-> "single", blocks |-> bs]
Pair(q, a) == [question |-> q, answer |-> a]

Undefined == [fmt |-> "undefined"]
EmptyText == Lines(<<>>)

\* text.trim().length === 0
IsBlankText(text) ==
    IF text.fmt = "lines"
    THEN \A i \in 1..Len(text.lines) : text.lines[i].tag = "blank"
    ELSE text.blocks = <<>>

RECURSIVE TrimFront(_)
TrimFront(a) == IF a # <<>> /\ Head(a) = <<>> THEN TrimFront(Tail(a)) ELSE a

RECURSIVE TrimBack(_)
TrimBack(a) ==
    IF a # <<>> /\ a[Len(a)] = <<>> THEN TrimBack(SubSeq(a, 1, Len(a) - 1)) ELSE a

\* currentAnswer.join("\n").trim()
JoinTrim(a) == TrimBack(TrimFront(a))

\* one iteration of the line loop of parseQAPairs (lines 727-760)
ParseLine(st, line) ==
    CASE line.tag = "blank" -> st
      [] line.tag = "Q" ->
           [q |-> line.body, a |-> <<>>,
            pairs |-> IF st.q # <<>> /\ st.a # <<>>
                      THEN Append(st.pairs, Pair(st.q, JoinTrim(st.a)))
                      ELSE st.pairs]
      [] line.tag = "A" ->
           IF st.q # <<>> THEN [st EXCEPT !.a = Append(@, line.body)] ELSE st
      [] OTHER ->
           IF st.q # <<>> /\ st.a # <<>> THEN [st EXCEPT !.a = Append(@, line.body)]
           ELSE IF st.q # <<>> THEN [st EXCEPT !.q = @ \o line.body]
           ELSE st

RECURSIVE ParseLines(_, _)
ParseLines(st, lines) ==
    IF lines = <<>> THEN st ELSE ParseLines(ParseLine(st, Head(lines)), Tail(lines))

RECURSIVE parseSingleLineQAPairs(_)
\* KnowledgeBaseReviewService.parseSingleLineQAPairs: a block contributes a
\* pair when both its question and its answer are non-empty
parseSingleLineQAPairs(blocks) ==
    IF blocks = <<>> THEN <<>>
    ELSE (IF Head(blocks).q # <<>> /\ Head(blocks).a # <<>>
          THEN <<Pair(Head(blocks).q, <<Head(blocks).a>>)>> ELSE <<>>)
         \o parseSingleLineQAPairs(Tail(blocks))

\* KnowledgeBaseReviewService.parseQAPairs
parseQAPairs(text) ==
    IF IsBlankText(text) THEN <<>>
    ELSE IF text.fmt = "single" THEN parseSingleLineQAPairs(text.blocks)
    ELSE LET st == ParseLines([q |-> <<>>, a |-> <<>>, pairs |-> <<>>], text.lines)
         IN IF st.q # <<>> /\ st.a # <<>>
            THEN Append(st.pairs, Pair(st.q, JoinTrim(st.a)))
            ELSE st.pairs

\* "Q: question\nA: answer" for one pair
FormatPair(pair) ==
    <<Ln("Q", pair.question)>> \o
    [i \in 1..Len(pair.answer) |->
        IF i = 1 THEN Ln("A", pair.answer[i])
        ELSE IF pair.answer[i] = <<>> THEN Ln("blank", <<>>)
        ELSE Ln("other", pair.answer[i])] \o
    (IF pair.answer = <<>> THEN <<Ln("A", <<>>)>> ELSE <<>>)

RECURSIVE FormatPairLines(_)
FormatPairLines(pairs) ==
    IF pairs = <<>> THEN <<>>
    ELSE IF Len(pairs) = 1 THEN FormatPair(Head(pairs))
    ELSE FormatPair(Head(pairs)) \o <<Ln("blank", <<>>)>> \o FormatPairLines(Tail(pairs))

\* KnowledgeBaseReviewService.formatQAPairs
formatQAPairs(pairs) == Lines(FormatPairLines(pairs))

\* pair lists that extraction followed by deduplication may yield
PairX == Pair(<<"X">>, <<<<"Y">>>>)
PairBadge == Pair(<<"reset", "badge">>, <<<<"front", "desk">>, <<"bring", "id">>>>)
ExtractedPairLists == { <<>>, <<PairX>>, <<PairX, PairBadge>> }

\* texts a reviewer may send as changes
ChangeTexts ==
    { Single(<<[q |-> <<"Z">>, a |-> <<"W">>], [q |-> <<"V">>, a |-> <<>>],
               [q |-> <<"U">>, a |-> <<"T">>]>>),
      Lines(<<Ln("Q", <<"Z">>), Ln("other", <<"more">>), Ln("A", <<>>),
              Ln("other", <<"W">>), Ln("Q", <<"V">>)>>),
      Lines(<<Ln("other", <<"please", "fix">>)>>) }

----------------------------------------------------------------------------
(* Reviewers *)

N_reviewer == <<"A", "l", " ", "P", "o">>
N_outsider == <<"B", "o">>
N_Unknown == <<"U", "n", "k", "n", "o", "w", "n">>
NoName == <<>>

\* activity.from.name values; NoName is a missing or empty name
SenderNames == {N_reviewer, N_outsider, NoName}

\* CONFIG.KB_REVIEW_USERS: the configured names, lower-cased, spaces removed
KB_REVIEW_USERS == { <<"a", "l", "p", "o">> }

\* name.toLowerCase().replaceAll(" ", "")
IsNotSpace(c) == c # " "
NormalizeName(name) == SelectSeq(toLowerCase(name), IsNotSpace)

canReviewKB_Open(senderName) == TRUE

\* helper canReviewKB(activity)
canReviewKB(senderName) == NormalizeName(senderName) \in KB_REVIEW_USERS

\* the authorization check inside processReviewResponse (lines 1036-1043)
isAuthorizedReviewer(reviewerName) == NormalizeName(reviewerName) \in KB_REVIEW_USERS

----------------------------------------------------------------------------
(* Review messages: SummaryID||Action||Changes *)

K_approved == <<"a", "p", "p", "r", "o", "v", "e", "d">>
K_approve == <<"a", "p", "p", "r", "o", "v", "e">>
K_rejected == <<"r", "e", "j", "e", "c", "t", "e", "d">>
K_reject == <<"r", "e", "j", "e", "c", "t">>
K_changes == <<"c", "h", "a", "n", "g", "e", "s">>
K_change == <<"c", "h", "a", "n", "g", "e">>
K_changes_required == <<"c", "h", "a", "n", "g", "e", "s", " ", "r", "e", "q", "u", "i", "r", "e", "d">>

T_Approved == <<"A", "p", "p", "r", "o", "v", "e", "d">>
T_REJECTED == <<"R", "E", "J", "E", "C", "T", "E", "D">>
T_Changes_Required == <<"C", "h", "a", "n", "g", "e", "s", " ", "R", "e", "q", "u", "i", "r", "e", "d">>
T_ok == <<"o", "k">>

\* action texts in the second field of a message
ActionTexts == {T_Approved, K_reject, T_Changes_Required, T_ok}

\* summary ids: summary_<date>_<Date.now()> and
\* consolidated_<start>_<end>_<Date.now()>
SummaryId(date, ts) == [kind |-> "summary", from |-> date, to |-> date, ts |-> ts]
ConsolidatedId(from, to, ts) == [kind |-> "consolidated", from |-> from, to |-> to, ts |-> ts]
\* an id-shaped text that names no stored summary, and the empty text
UnknownId == [kind |-> "summary", from |-> 0, to |-> 0, ts |-> 0]
EmptyId == [kind |-> "empty", from |-> 0, to |-> 0, ts |-> 0]
\* a message text without an id pattern, taken as the id by parts[0] || ""
TextAsId == [kind |-> "text", from |-> 0, to |-> 0, ts |-> 0]

Piped(id, actionText, changes) ==
    [form |-> "piped", id |-> id, text |-> actionText, changes |-> changes]
\* a message without "||": its text, and what the id pattern matches in it
Natural(text, match) ==
    [form |-> "natural", id |-> match, text |-> text, changes |-> Undefined]

parseKBReviewMessage_UnclearInvalid(msg) ==
    IF msg.form = "natural"
    THEN LET lowerText == toLowerCase(msg.text)
             action == IF includes(lowerText, K_approved) THEN "approved"
                       ELSE IF includes(lowerText, K_rejected) THEN "rejected"
                       ELSE IF includes(lowerText, K_changes_required)
                               \/ includes(lowerText, K_changes) THEN "changes_required"
                       ELSE "null"
             summaryId == IF msg.id # EmptyId THEN msg.id
                          ELSE IF msg.text # <<>> THEN TextAsId ELSE EmptyId
         IN [summaryId |-> summaryId,
             action |-> IF action = "null" THEN "approved" ELSE action,
             changes |-> Undefined,
             isValid |-> summaryId # EmptyId /\ action # "null"]
    ELSE LET actionText == toLowerCase(trim(msg.text))
             matched == \/ includes(actionText, K_approved) \/ actionText = K_approve
                        \/ includes(actionText, K_rejected) \/ actionText = K_reject
                        \/ includes(actionText, K_changes) \/ includes(actionText, K_change)
         IN [summaryId |-> msg.id,
             action |-> IF includes(actionText, K_approved) \/ actionText = K_approve
                            THEN "approved"
                        ELSE IF includes(actionText, K_rejected) \/ actionText = K_reject
                            THEN "rejected"
                        ELSE IF includes(actionText, K_changes) \/ includes(actionText, K_change)
                            THEN "changes_required"
                        ELSE "approved",
             changes |-> msg.changes,
             isValid |-> msg.id # EmptyId /\ matched]

\* parseKBReviewMessage
parseKBReviewMessage(msg) ==
    IF msg.form = "natural"
    THEN LET lowerText == toLowerCase(msg.text)
             action == IF includes(lowerText, K_approved) THEN "approved"
                       ELSE IF includes(lowerText, K_rejected) THEN "rejected"
                       ELSE IF includes(lowerText, K_changes_required)
                               \/ includes(lowerText, K_changes) THEN "changes_required"
                       ELSE "null"
             summaryId == IF msg.id # EmptyId THEN msg.id
                          ELSE IF msg.text # <<>> THEN TextAsId ELSE EmptyId
         IN [summaryId |-> summaryId,
             action |-> IF action = "null" THEN "approved" ELSE action,
             changes |-> Undefined,
             isValid |-> summaryId # EmptyId /\ action # "null"]
    ELSE LET actionText == toLowerCase(trim(msg.text))
         IN [summaryId |-> msg.id,
             action |-> IF includes(actionText, K_approved) \/ actionText = K_approve
                            THEN "approved"
                        ELSE IF includes(actionText, K_rejected) \/ actionText = K_reject
                            THEN "rejected"
                        ELSE IF includes(actionText, K_changes) \/ includes(actionText, K_change)
                            THEN "changes_required"
                        ELSE "approved",
             changes |-> msg.changes,
             isValid |-> msg.id # EmptyId]

\* the second fields a reviewer may type
T_approves == <<"a", "p", "p", "r", "o", "v", "e", "s">>
T_reject_now == <<"r", "e", "j", "e", "c", "t", " ", "n", "o", "w">>
T_Reject_padded == <<" ", "R", "e", "j", "e", "c", "t", " ">>
T_exchange == <<"e", "x", "c", "h", "a", "n", "g", "e">>
TypedActionTexts ==
    ActionTexts \cup {T_approves, T_reject_now, T_Reject_padded, T_exchange, <<>>}

\* messages handed to parseKBReviewMessage
ParseMessages ==
    { Piped(id, a, c) : id \in {SummaryId(1, 0), UnknownId, EmptyId},
                        a \in TypedActionTexts,
                        c \in {Undefined, EmptyText} \cup ChangeTexts } \cup
    { Natural(t, m) : t \in {T_Approved, T_REJECTED, T_ok, <<>>},
                      m \in {SummaryId(1, 0), EmptyId} }

\* handleKBReviewMessage parses the text of a review-group message
ParseReview ==
    /\ last.kind = "none"
    /\ \E msg \in ParseMessages :
         last' = [kind |-> "parse", msg |-> msg, parsed |-> parseKBReviewMessage(msg)]
    /\ UNCHANGED <<gr, initialized, indexPresent, store, summaries, now, today,
                   lastSummaryDate, pendingSummary>>
    /\ UNCHANGED opsVars

----------------------------------------------------------------------------
(* Review persistence (DatabaseService) and the Knowledge Store *)

Null == Undefined

\* JavaScript truthiness of an optional text
Truthy(text) == text # Undefined /\ ~IsBlankText(text)

\* DatabaseService.createKBSummary
createKBSummary(S, summaryId, date, summaryText, t) ==
    (summaryId :> [date |-> date, summaryText |-> summaryText, status |-> "sent",
                   reviewedBy |-> NoName, changes |-> Null, createdAt |-> t]) @@ S

\* DatabaseService.updateKBSummaryStatus: one UPDATE ... WHERE summaryId = @id
updateKBSummaryStatus(S, summaryId, status, reviewedBy, changes) ==
    IF summaryId \notin DOMAIN S THEN S
    ELSE [S EXCEPT ![summaryId] =
            [@ EXCEPT !.status = status,
                      !.reviewedBy = reviewedBy,
                      !.changes = IF Truthy(changes) THEN changes ELSE Null]]

\* an embedding is identified with the text it was generated from; a document
\* built without one has NoEmbedding, and SuppliedEmbedding is a vector that
\* the caller computed itself
NoEmbedding == [of |-> "none", question |-> <<>>, answer |-> <<>>]
SuppliedEmbedding == [of |-> "supplied", question |-> <<>>, answer |-> <<>>]

documents_ForeignSource(summaryId, qaPairs, t) ==
    [i \in 1..Len(qaPairs) |->
        [id |-> [summaryId |-> summaryId, ts |-> t, index |-> i - 1],
         content |-> qaPairs[i].answer,
         question |-> qaPairs[i].question,
         answer |-> qaPairs[i].answer,
         source |-> UnknownId,
         status |-> "approved",
         embedding |-> NoEmbedding]]

\* the KnowledgeDocument objects built on lines 1069-1077
documents(summaryId, qaPairs, t) ==
    [i \in 1..Len(qaPairs) |->
        [id |-> [summaryId |-> summaryId, ts |-> t, index |-> i - 1],
         content |-> qaPairs[i].answer,
         question |-> qaPairs[i].question,
         answer |-> qaPairs[i].answer,
         source |-> summaryId,
         status |-> "approved",
         embedding |-> NoEmbedding]]

textToEmbed_ContentOnly(doc) ==
    [of |-> "content", question |-> <<>>, answer |-> doc.content]

\* lines 283-287: doc.question && doc.answer ? `${question} ${answer}` : content
textToEmbed(doc) ==
    IF doc.question # <<>> /\ doc.answer # <<>>
    THEN [of |-> "qa", question |-> doc.question, answer |-> doc.answer]
    ELSE [of |-> "content", question |-> <<>>, answer |-> doc.content]

\* lines 281-295: the documents after generateEmbeddings has answered
WithEmbeddings(docs) ==
    [i \in 1..Len(docs) |->
        IF docs[i].embedding = NoEmbedding
        THEN [docs[i] EXCEPT !.embedding = textToEmbed(docs[i])]
        ELSE docs[i]]

mergeOrUploadDocuments_Append(St, docs) ==
    [id \in DOMAIN St \cup {docs[i].id : i \in 1..Len(docs)} |->
        IF id \in DOMAIN St THEN St[id]
        ELSE docs[CHOOSE j \in 1..Len(docs) : docs[j].id = id]]

\* searchClient.mergeOrUploadDocuments(batch): the index keeps one document
\* per key; every field is defined in the documents the program builds, so
\* a document with a stored key takes the place of the stored one
mergeOrUploadDocuments(St, docs) ==
    [id \in DOMAIN St \cup {docs[i].id : i \in 1..Len(docs)} |->
        IF \E i \in 1..Len(docs) : docs[i].id = id
        THEN docs[CHOOSE j \in 1..Len(docs) :
                     docs[j].id = id /\ \A k \in (j+1)..Len(docs) : docs[k].id # id]
        ELSE St[id]]

\* AzureSearchService.upsertDocuments when no call fails: every document
\* without an embedding gets one, then mergeOrUploadDocuments by id
upsertDocuments(St, docs) == mergeOrUploadDocuments(St, WithEmbeddings(docs))

\* the document bulk-loaded by scripts/migrateKnowledgeBase.ts
MigratedSource == [kind |-> "file", from |-> 0, to |-> 0, ts |-> 0]
MigratedDoc ==
    [id |-> [summaryId |-> MigratedSource, ts |-> 0, index |-> 0],
     content |-> <<<<"faq">>>>, question |-> <<"faq">>, answer |-> <<<<"faq">>>>,
     source |-> MigratedSource, status |-> "approved",
     embedding |-> [of |-> "qa", question |-> <<"faq">>, answer |-> <<<<"faq">>>>]]

IsSummarySource(source) == source.kind \in {"summary", "consolidated"}

----------------------------------------------------------------------------
(* KnowledgeBaseReviewService.processReviewResponse *)

\* the provider call that fails while one review message is handled
ReviewFaults == {"none", "get_all", "get_service", "update_changes",
                 "upsert_init", "upsert", "update_final"}

Outcome(threw, processed, message, added, S, St, init) ==
    [threw |-> threw, processed |-> processed, message |-> message,
     added |-> added, summaries |-> S, store |-> St, initialized |-> init]

\* lines 1049-1051: parsed.changes || parsed.changes.trim().length > 10;
\* reading .trim of undefined throws a TypeError
ChangesTestThrows(changes) == changes = Undefined
UsesChanges_Never(changes) == FALSE
UsesChanges(changes) == Truthy(changes)

\* the branch without the try/catch of lines 1067-1087
CommitReview_Propagates(reviewerName, parsed, fault, S, St, init, t) ==
    LET id == parsed.summaryId
        useChanges == UsesChanges(parsed.changes)
        summaryText == IF useChanges THEN parsed.changes ELSE S[id].summaryText
        S1 == IF useChanges
              THEN updateKBSummaryStatus(S, id, "changes_required", reviewerName,
                                         parsed.changes)
              ELSE S
        qaPairs == parseQAPairs(summaryText)
        docs == documents(id, qaPairs, t)
        tryUpsert == Len(qaPairs) > 0
        initFails == tryUpsert /\ ~init /\ fault = "upsert_init"
        upsertOk == tryUpsert /\ ~initFails /\ fault # "upsert"
        St1 == IF upsertOk THEN upsertDocuments(St, docs) ELSE St
        init1 == IF tryUpsert /\ ~initFails THEN TRUE ELSE init
        addedCount == IF upsertOk THEN Len(docs) ELSE 0
        S2 == updateKBSummaryStatus(S1, id, "approved", reviewerName, Undefined)
    IN IF ChangesTestThrows(parsed.changes)
       THEN Outcome(TRUE, FALSE, "TypeError", 0, S, St, init)
       ELSE IF useChanges /\ fault = "update_changes"
       THEN Outcome(TRUE, FALSE, "database error", 0, S, St, init)
       ELSE IF tryUpsert /\ ~upsertOk
       THEN Outcome(TRUE, FALSE, "search error", 0, S1, St, init1)
       ELSE IF fault = "update_final"
       THEN Outcome(TRUE, FALSE, "database error", addedCount, S1, St1, init1)
       ELSE Outcome(FALSE, TRUE, "Summary approved", addedCount, S2, St1, init1)

\* lines 1045-1101: the approved / changes_required branch
CommitReview(reviewerName, parsed, fault, S, St, init, t) ==
    LET id == parsed.summaryId
        useChanges == UsesChanges(parsed.changes)
        summaryText == IF useChanges THEN parsed.changes ELSE S[id].summaryText
        S1 == IF useChanges
              THEN updateKBSummaryStatus(S, id, "changes_required", reviewerName,
                                         parsed.changes)
              ELSE S
        qaPairs == parseQAPairs(summaryText)
        docs == documents(id, qaPairs, t)
        tryUpsert == Len(qaPairs) > 0
        initFails == tryUpsert /\ ~init /\ fault = "upsert_init"
        upsertOk == tryUpsert /\ ~initFails /\ fault # "upsert"
        St1 == IF upsertOk THEN upsertDocuments(St, docs) ELSE St
        init1 == IF tryUpsert /\ ~initFails THEN TRUE ELSE init
        addedCount == IF upsertOk THEN Len(docs) ELSE 0
        S2 == updateKBSummaryStatus(S1, id, "approved", reviewerName, Undefined)
    IN IF ChangesTestThrows(parsed.changes)
       THEN Outcome(TRUE, FALSE, "TypeError", 0, S, St, init)
       ELSE IF useChanges /\ fault = "update_changes"
       THEN Outcome(TRUE, FALSE, "database error", 0, S, St, init)
       ELSE IF fault = "update_final"
       THEN Outcome(TRUE, FALSE, "database error", addedCount, S1, St1, init1)
       ELSE Outcome(FALSE, TRUE, "Summary approved", addedCount, S2, St1, init1)

processReviewResponse(reviewerName, parsed, fault, S, St, init, t) ==
    IF fault = "get_service" \/ parsed.summaryId \notin DOMAIN S
    THEN Outcome(FALSE, FALSE, "Summary not found", 0, S, St, init)
    ELSE IF parsed.action = "rejected"
    THEN Outcome(FALSE, TRUE, "Summary rejected", 0, S, St, init)
    ELSE IF ~isAuthorizedReviewer(reviewerName)
    THEN Outcome(FALSE, FALSE, "User not authorized", 0, S, St, init)
    ELSE CommitReview(reviewerName, parsed, fault, S, St, init, t)

----------------------------------------------------------------------------
(* handleKBReviewMessage *)

NoPending == [summaryId |-> EmptyId, message |-> EmptyText]

ReviewMessages ==
    { Piped(id, a, c) : id \in DOMAIN summaries \cup {UnknownId, EmptyId},
                        a \in ActionTexts,
                        c \in {Undefined, EmptyText} \cup ChangeTexts } \cup
    { Natural(t, m) : t \in {T_Approved, T_REJECTED, T_ok, <<>>},
                      m \in DOMAIN summaries \cup {EmptyId} }

HandledReview_UsesFallback(senderName, msg, fault) ==
    LET p0 == parseKBReviewMessage(msg)
        found == fault # "get_all" /\ p0.summaryId \in DOMAIN summaries
        fallback == fault # "get_all"
                    /\ \E id \in DOMAIN summaries : summaries[id].status = "sent"
        parsed == IF ~found /\ fallback
                  THEN [p0 EXCEPT !.summaryId =
                          CHOOSE id \in DOMAIN summaries : summaries[id].status = "sent"]
                  ELSE p0
        reviewerName == IF senderName = NoName THEN N_Unknown ELSE senderName
        same == Outcome(FALSE, FALSE, "", 0, summaries, store, initialized)
        r == processReviewResponse(reviewerName, parsed, fault,
                                   summaries, store, initialized, now)
    IN IF ~p0.isValid
       THEN IF ~canReviewKB(senderName)
            THEN [reply |-> "unauthorized_request", reached |-> FALSE,
                  takesPending |-> FALSE, out |-> same]
            ELSE [reply |-> IF pendingSummary # NoPending
                            THEN "pending_summary" ELSE "no_entries",
                  reached |-> FALSE, takesPending |-> TRUE, out |-> same]
       ELSE IF ~canReviewKB(senderName)
       THEN [reply |-> "unauthorized", reached |-> FALSE,
             takesPending |-> FALSE, out |-> same]
       ELSE IF ~found /\ ~fallback
       THEN [reply |-> "not_found", reached |-> FALSE,
             takesPending |-> FALSE, out |-> same]
       ELSE [reply |-> IF r.threw THEN "error"
                       ELSE IF r.processed THEN "result" ELSE "unable",
             reached |-> TRUE, takesPending |-> FALSE, out |-> r]

\* what the handler does with one message of the review group
HandledReview(senderName, msg, fault) ==
    LET parsed == parseKBReviewMessage(msg)
        reviewerName == IF senderName = NoName THEN N_Unknown ELSE senderName
        found == fault # "get_all" /\ parsed.summaryId \in DOMAIN summaries
        fallback == fault # "get_all"
                    /\ \E id \in DOMAIN summaries : summaries[id].status = "sent"
        same == Outcome(FALSE, FALSE, "", 0, summaries, store, initialized)
        r == processReviewResponse(reviewerName, parsed, fault,
                                   summaries, store, initialized, now)
    IN IF ~parsed.isValid
       THEN IF ~canReviewKB(senderName)
            THEN [reply |-> "unauthorized_request", reached |-> FALSE,
                  takesPending |-> FALSE, out |-> same]
            ELSE [reply |-> IF pendingSummary # NoPending
                            THEN "pending_summary" ELSE "no_entries",
                  reached |-> FALSE, takesPending |-> TRUE, out |-> same]
       ELSE IF ~canReviewKB(senderName)
       THEN [reply |-> "unauthorized", reached |-> FALSE,
             takesPending |-> FALSE, out |-> same]
       ELSE IF ~found /\ ~fallback
       THEN [reply |-> "not_found", reached |-> FALSE,
             takesPending |-> FALSE, out |-> same]
       ELSE [reply |-> IF r.threw THEN "error"
                       ELSE IF r.processed THEN "result" ELSE "unable",
             reached |-> TRUE, takesPending |-> FALSE, out |-> r]

\* a fault names a provider call that this handling actually makes
FaultApplicable(senderName, msg, fault) ==
    LET parsed == parseKBReviewMessage(msg)
        commits == /\ parsed.summaryId \in DOMAIN summaries
                   /\ parsed.action # "rejected"
                   /\ ~ChangesTestThrows(parsed.changes)
        text == IF UsesChanges(parsed.changes) THEN parsed.changes
                ELSE summaries[parsed.summaryId].summaryText
    IN \/ fault = "none"
       \/ /\ parsed.isValid /\ canReviewKB(senderName)
          /\ CASE fault = "get_all" -> TRUE
               [] fault = "get_service" -> parsed.summaryId \in DOMAIN summaries
               [] fault = "update_changes" -> commits /\ UsesChanges(parsed.changes)
               [] fault = "upsert_init" ->
                    commits /\ ~initialized /\ Len(parseQAPairs(text)) > 0
               [] fault = "upsert" -> commits /\ Len(parseQAPairs(text)) > 0
               [] OTHER -> commits

HandleKBReviewMessage ==
    /\ now < MaxTime
    /\ last.kind = "none"
    /\ \E senderName \in SenderNames, msg \in ReviewMessages, fault \in ReviewFaults :
         LET h == HandledReview(senderName, msg, fault)
         IN /\ FaultApplicable(senderName, msg, fault)
            /\ summaries' = h.out.summaries
            /\ store' = h.out.store
            /\ initialized' = h.out.initialized
            /\ indexPresent' = (indexPresent \/ h.out.initialized)
            /\ pendingSummary' = IF h.takesPending THEN NoPending ELSE pendingSummary
            /\ last' = [kind |-> "review", sender |-> senderName,
                        parsed |-> parseKBReviewMessage(msg), fault |-> fault,
                        reached |-> h.reached, reply |-> h.reply,
                        threw |-> h.out.threw, processed |-> h.out.processed,
                        message |-> h.out.message, added |-> h.out.added,
                        at |-> now,
                        pre |-> [store |-> store, summaries |-> summaries]]
    /\ now' = now + 1
    /\ UNCHANGED <<gr, today, lastSummaryDate>>
    /\ UNCHANGED opsVars

----------------------------------------------------------------------------
(* DailySummaryScheduler.checkAndSendSummary and the curation it triggers *)

NoDate == 0

\* the text returned when the date range has no conversations (line 226)
NoConversationsText == Lines(<<Ln("other", <<"No", "conversations", "found">>)>>)

\* ids of the summaries in status sent (getKBSummariesByStatus("sent", 10))
SentIds(S) == {id \in DOMAIN S : S[id].status = "sent"}

\* pendingSummaries[pendingSummaries.length - 1]: rows come ordered by
\* createdAt DESC, so the last one is the earliest created
OldestPending(S) ==
    CHOOSE id \in SentIds(S) : \A o \in SentIds(S) : S[id].createdAt <= S[o].createdAt

\* what the provider calls of one fire do
FireFaults == {"none", "db_read", "consolidated", "daily", "create", "send"}
FireEnv(hasConversations, pairs, fault) ==
    [hasConversations |-> hasConversations,  \* the date range has conversations
     consolidatedPairs |-> pairs,
     dailyPairs |-> pairs,
     dbReadOk |-> fault # "db_read",         \* getKBSummariesByStatus succeeds
     consolidatedThrows |-> fault = "consolidated",  \* a call inside generateConsolidatedSummary rejects
     dailyThrows |-> fault = "daily",        \* a call inside generateDailySummary rejects
     createOk |-> fault # "create",          \* createKBSummary of the daily summary succeeds
     sendOk |-> fault # "send"]              \* app.send succeeds
FireEnvs ==
    {FireEnv(c, p, f) : c \in BOOLEAN, p \in ExtractedPairLists, f \in FireFaults}

\* generateConsolidatedSummary(startDate, endDate), when it does not throw;
\* extracted holds the date ranges whose conversations were handed to the
\* extraction call (line 234)
generateConsolidatedSummary(S, startDate, endDate, env, t) ==
    IF ~env.hasConversations
    THEN [summary |-> NoConversationsText,
          summaryId |-> ConsolidatedId(startDate, endDate, 0),
          summaries |-> S, extracted |-> {}]
    ELSE LET text == formatQAPairs(env.consolidatedPairs)
             id == ConsolidatedId(startDate, endDate, t)
         IN [summary |-> text, summaryId |-> id,
             summaries |-> createKBSummary(S, id, endDate, text, t),
             extracted |-> {[from |-> startDate, to |-> endDate]}]

\* lines 889-903: the summaries of the date in status sent or changes_required
ActiveSummaries(S, date) ==
    {id \in DOMAIN S : S[id].date = date /\ S[id].status \in {"sent", "changes_required"}}

\* KnowledgeBaseReviewService.generateDailySummary(date), when it does not
\* throw: the text of an existing active summary of that date, else the
\* formatted pairs left by extraction and deduplication
generateDailySummary(S, date, env) ==
    LET active == ActiveSummaries(S, date)
        first == CHOOSE id \in active : \A o \in active : S[id].createdAt <= S[o].createdAt
    IN IF env.dbReadOk /\ active # {}
       THEN S[first].summaryText
       ELSE formatQAPairs(env.dailyPairs)

\* lines 101-156: the backlog check
Backlog(S, date, env, t) ==
    LET none == [summaryToSend |-> EmptyText, summaryId |-> EmptyId,
                 summaries |-> S, branch |-> "none", extracted |-> {}]
    IN IF ~env.dbReadOk \/ SentIds(S) = {} THEN none
       ELSE LET oldest == OldestPending(S)
                daysDiff == date - S[oldest].date
                c == IF daysDiff >= 2
                     THEN generateConsolidatedSummary(S, S[oldest].date, date, env, t)
                     ELSE generateConsolidatedSummary(S, date - 1, date - 1, env, t)
            IN IF daysDiff = 0
               THEN [summaryToSend |-> S[oldest].summaryText, summaryId |-> oldest,
                     summaries |-> S, branch |-> "resend", extracted |-> {}]
               ELSE IF env.consolidatedThrows
               THEN [none EXCEPT !.branch = "consolidate_failed",
                                 !.extracted = c.extracted]
               ELSE [summaryToSend |-> c.summary, summaryId |-> c.summaryId,
                     summaries |-> c.summaries, extracted |-> c.extracted,
                     branch |-> IF daysDiff >= 2 THEN "consolidate" ELSE "yesterday"]

\* lines 158-171: fresh generation when the backlog gave no text
Fresh(b, date, env, t) ==
    LET summary == generateDailySummary(b.summaries, date, env)
        id == SummaryId(date, t)
        \* the extraction call of generateDailySummary (line 910) is reached
        \* unless an active summary of the date was found
        extracted == IF env.dbReadOk /\ ActiveSummaries(b.summaries, date) # {}
                     THEN b.extracted
                     ELSE b.extracted \cup {[from |-> date, to |-> date]}
    IN IF Truthy(b.summaryToSend) THEN [b EXCEPT !.branch = b.branch]
       ELSE IF ~Truthy(summary) THEN [b EXCEPT !.extracted = extracted]
       ELSE [summaryToSend |-> summary, summaryId |-> id, extracted |-> extracted,
             summaries |-> IF env.createOk
                           THEN createKBSummary(b.summaries, id, date, summary, t)
                           ELSE b.summaries,
             branch |-> IF b.branch = "none" THEN "fresh" ELSE "fresh_after_backlog"]

RecordedDate_Always(escapes, currentDate, lastDate) == currentDate

\* line 199 is reached unless an exception escaped to the catch on line 201
RecordedDate(escapes, currentDate, lastDate) ==
    IF escapes THEN lastDate ELSE currentDate

\* one invocation of checkAndSendSummary with timeMatch true
CheckAndSendSummary ==
    /\ now < MaxTime
    /\ last.kind = "none"
    /\ lastSummaryDate # today
    /\ \E env \in FireEnvs :
         LET b == Backlog(summaries, today, env, now)
             f == Fresh(b, today, env, now)
             escapes == ~Truthy(b.summaryToSend) /\ env.dailyThrows
             delivered == Truthy(f.summaryToSend) /\ env.sendOk
         IN IF escapes
            THEN /\ summaries' = b.summaries
                 /\ lastSummaryDate' = RecordedDate(TRUE, today, lastSummaryDate)
                 /\ UNCHANGED pendingSummary
                 /\ last' = [kind |-> "fire", branch |-> b.branch, escaped |-> TRUE,
                             delivered |-> FALSE, summaryId |-> EmptyId, at |-> now,
                             env |-> env, extracted |-> b.extracted,
                             summaryToSend |-> EmptyText,
                             pre |-> [store |-> store, summaries |-> summaries,
                                      lastSummaryDate |-> lastSummaryDate]]
            ELSE /\ summaries' = f.summaries
                 /\ lastSummaryDate' = RecordedDate(FALSE, today, lastSummaryDate)
                 /\ pendingSummary' = IF delivered
                                      THEN [summaryId |-> f.summaryId,
                                            message |-> f.summaryToSend]
                                      ELSE pendingSummary
                 /\ last' = [kind |-> "fire", branch |-> f.branch, escaped |-> FALSE,
                             delivered |-> delivered, summaryId |-> f.summaryId,
                             at |-> now,
                             env |-> env, extracted |-> f.extracted,
                             summaryToSend |-> f.summaryToSend,
                             pre |-> [store |-> store, summaries |-> summaries,
                                      lastSummaryDate |-> lastSummaryDate]]
    /\ now' = now + 1
    /\ UNCHANGED <<gr, initialized, indexPresent, store, today>>
    /\ UNCHANGED opsVars

\* midnight passes
NextDay ==
    /\ today < MaxDay
    /\ last.kind = "none"
    /\ today' = today + 1
    /\ UNCHANGED <<gr, initialized, indexPresent, store, summaries, now,
                   lastSummaryDate, pendingSummary, last>>
    /\ UNCHANGED opsVars

\* the reply has been sent / the fire has ended: the next event may start
Finish ==
    /\ last.kind # "none"
    /\ last' = [kind |-> "none"]
    /\ UNCHANGED <<gr, initialized, indexPresent, store, summaries, now, today,
                   lastSummaryDate, pendingSummary>>
    /\ UNCHANGED opsVars

----------------------------------------------------------------------------
(* checkAndSendSummary step by step: the invocations started by the minute  *)
(* timer run concurrently and yield at their awaits                         *)

Invocations == 1..MaxInvocations

SchedIdle ==
    [pc |-> "idle", date |-> NoDate, summaryToSend |-> EmptyText,
     summaryId |-> EmptyId, branch |-> "none"]

\* lines 80-98: timeMatch && this.lastSummaryDate !== currentDate, up to the
\* first await (getKBSummariesByStatus, line 107)
SchedTick(i) ==
    /\ sched[i].pc = "idle"
    /\ lastSummaryDate # today
    /\ sched' = [sched EXCEPT ![i] = [SchedIdle EXCEPT !.pc = "backlog", !.date = today]]
    /\ UNCHANGED <<gr, initialized, indexPresent, store, summaries, now, today,
                   lastSummaryDate, pendingSummary, last, dd, hs, ini, up, cur, conversationService>>

\* lines 101-156: the backlog check of invocation i
SchedBacklog(i) ==
    /\ sched[i].pc = "backlog"
    /\ now < MaxTime
    /\ \E env \in FireEnvs :
         /\ env.dailyThrows = FALSE /\ env.createOk /\ env.sendOk
         /\ LET b == Backlog(summaries, sched[i].date, env, now)
            IN /\ summaries' = b.summaries
               /\ now' = IF b.summaries = summaries THEN now ELSE now + 1
               /\ sched' = [sched EXCEPT ![i] =
                     [@ EXCEPT !.pc = IF Truthy(b.summaryToSend) THEN "send" ELSE "fresh",
                               !.summaryToSend = b.summaryToSend,
                               !.summaryId = b.summaryId,
                               !.branch = b.branch]]
    /\ UNCHANGED <<gr, initialized, indexPresent, store, today,
                   lastSummaryDate, pendingSummary, last, dd, hs, ini, up, cur, conversationService>>

\* lines 158-171: generateDailySummary and createAndStoreSummary of
\* invocation i; a rejection of generateDailySummary reaches the outer catch
SchedFresh(i) ==
    /\ sched[i].pc = "fresh"
    /\ now < MaxTime
    /\ \E env \in FireEnvs :
         /\ ~env.consolidatedThrows /\ env.sendOk
         /\ LET b == [summaryToSend |-> sched[i].summaryToSend,
                      summaryId |-> sched[i].summaryId,
                      summaries |-> summaries, branch |-> sched[i].branch,
                      extracted |-> {}]
                f == Fresh(b, sched[i].date, env, now)
            IN IF env.dailyThrows
               THEN /\ sched' = [sched EXCEPT ![i] = SchedIdle]
                    /\ UNCHANGED <<summaries, now>>
               ELSE /\ summaries' = f.summaries
                    /\ now' = now + 1
                    /\ sched' = [sched EXCEPT ![i] =
                          [@ EXCEPT !.pc = "send",
                                    !.summaryToSend = f.summaryToSend,
                                    !.summaryId = f.summaryId,
                                    !.branch = f.branch]]
    /\ UNCHANGED <<gr, initialized, indexPresent, store, today,
                   lastSummaryDate, pendingSummary, last, dd, hs, ini, up, cur, conversationService>>

\* lines 173-199: app.send, pendingSummary, lastSummaryDate = currentDate
SchedSend(i) ==
    /\ sched[i].pc = "send"
    /\ \E sendOk \in BOOLEAN :
         pendingSummary' = IF Truthy(sched[i].summaryToSend) /\ sendOk
                           THEN [summaryId |-> sched[i].summaryId,
                                 message |-> sched[i].summaryToSend]
                           ELSE pendingSummary
    /\ lastSummaryDate' = sched[i].date
    /\ sched' = [sched EXCEPT ![i] = SchedIdle]
    /\ UNCHANGED <<gr, initialized, indexPresent, store, summaries, now, today, last, dd, hs, ini, up, cur, conversationService>>

----------------------------------------------------------------------------
(* KnowledgeBaseReviewService.filterDuplicatePairs *)

K_DUPLICATE == <<"D", "U", "P", "L", "I", "C", "A", "T", "E">>
K_UNIQUE == <<"U", "N", "I", "Q", "U", "E">>

\* verdict texts of the duplicate-validation oracle
V_DUPLICATE == K_DUPLICATE
V_duplicate_padded == <<" ", "d", "u", "p", "l", "i", "c", "a", "t", "e", " ">>
V_Unique == <<"U", "n", "i", "q", "u", "e", ".">>
V_both == <<"U", "N", "I", "Q", "U", "E", ",", " ", "n", "o", " ", "D", "U", "P", "L", "I", "C", "A", "T", "E">>
V_maybe == <<"m", "a", "y", "b", "e">>
V_empty == <<>>

\* what the validation call does: it answers with a text, or it rejects
Verdict(kind, text) == [kind |-> kind, text |-> text]
Verdicts ==
    {Verdict("text", t) : t \in {V_DUPLICATE, V_duplicate_padded, V_Unique, V_both,
                                 V_maybe, V_empty}}
    \cup {Verdict("fail", <<>>)}

SEARCH_THRESHOLD == 750
QUESTION_TOP_K == 5
COMBINED_TOP_K == 3
SCORE_DUPLICATE == 900

\* hits the provider returns for a candidate pair, best first; the chunk
\* names the stored document (its question and answer)
DedupHitLists ==
    { <<>>,
      <<Hit(950, "c_long")>>,
      <<Hit(800, "c_mid")>>,
      <<Hit(700, "c_short")>>,
      <<Hit(800, "c_mid"), Hit(760, "c_long")>> }
\* ... and for the question and answer searched together
CombinedHitLists == { <<>>, <<Hit(950, "c_long")>>, <<Hit(800, "c_mid")>> }

RECURSIVE MergeResults(_, _)
\* lines 486-499: push the combined results whose question and answer are
\* not yet in allSearchResults
MergeResults(all, combined) ==
    IF combined = <<>> THEN all
    ELSE MergeResults(
            IF \E k \in 1..Len(all) : all[k].chunk = Head(combined).chunk
            THEN all ELSE Append(all, Head(combined)),
            Tail(combined))

\* lines 502-509: new Map(entries).values() keeps the position of the first
\* entry of a key and the value of the last one
UniqueByKey(all) ==
    LET firsts == SelectSeq([k \in 1..Len(all) |-> k],
                            LAMBDA k : \A j \in 1..(k - 1) : all[j].chunk # all[k].chunk)
    IN [n \in 1..Len(firsts) |->
           all[CHOOSE j \in 1..Len(all) :
                   /\ all[j].chunk = all[firsts[n]].chunk
                   /\ \A h \in (j + 1)..Len(all) : all[h].chunk # all[j].chunk]]

validateDuplicateWithLLM_KeepUnclear(searchResults, verdict) ==
    IF verdict.kind = "fail"
    THEN searchResults[1].score >= SCORE_DUPLICATE
    ELSE LET responseUpper == toUpperCase(trim(verdict.text))
         IN includes(responseUpper, K_DUPLICATE) /\ ~includes(responseUpper, K_UNIQUE)

validateDuplicateWithLLM_DuplicateWins(searchResults, verdict) ==
    IF verdict.kind = "fail"
    THEN searchResults[1].score >= SCORE_DUPLICATE
    ELSE LET responseUpper == toUpperCase(trim(verdict.text))
         IN includes(responseUpper, K_DUPLICATE) \/ ~includes(responseUpper, K_UNIQUE)

\* validateDuplicateWithLLM: TRUE when the pair is a duplicate
validateDuplicateWithLLM(searchResults, verdict) ==
    IF verdict.kind = "fail"
    THEN searchResults[1].score >= SCORE_DUPLICATE
    ELSE LET responseUpper == toUpperCase(trim(verdict.text))
             isDuplicate == includes(responseUpper, K_DUPLICATE)
                            /\ ~includes(responseUpper, K_UNIQUE)
         IN IF ~includes(responseUpper, K_DUPLICATE) /\ ~includes(responseUpper, K_UNIQUE)
            THEN TRUE
            ELSE isDuplicate

\* the provider calls made for one candidate pair
DedupEnvs ==
    [qPath : SearchPaths, qRaw : DedupHitLists,
     cPath : {"hybrid", "keyword", "allFail"}, cRaw : CombinedHitLists,
     verdict : Verdicts]

\* candidate pair lists handed to the dedup step
DedupInputs == { <<>>, <<PairX>>, <<PairX, PairBadge>> }

\* one iteration of the loop over qaPairs (lines 446-560)
CheckPair(env) ==
    LET questionResults ==
            hybridSearch(env.qPath, env.qRaw, QUESTION_TOP_K, SEARCH_THRESHOLD).results
        combinedResults ==
            hybridSearch(env.cPath, env.cRaw, COMBINED_TOP_K, SEARCH_THRESHOLD).results
        uniqueResults == UniqueByKey(MergeResults(questionResults, combinedResults))
        asked == uniqueResults # <<>>
        isDuplicate == asked /\ validateDuplicateWithLLM(uniqueResults, env.verdict)
        responseUpper == toUpperCase(trim(env.verdict.text))
    IN [keep |-> ~isDuplicate,
        \* what was the case for this pair
        response |-> IF asked THEN env.verdict ELSE Verdict("none", <<>>),
        cleared |-> \E h \in 1..Len(env.qRaw) : env.qRaw[h].score >= SEARCH_THRESHOLD,
        clearedCombined |-> \E h \in 1..Len(env.cRaw) : env.cRaw[h].score >= SEARCH_THRESHOLD,
        matches |-> Len(uniqueResults),
        bestScore |-> IF uniqueResults = <<>> THEN 0
                      ELSE CHOOSE m \in {uniqueResults[h].score : h \in 1..Len(uniqueResults)} :
                              \A h \in 1..Len(uniqueResults) : uniqueResults[h].score <= m,
        verdict |-> IF ~asked THEN "not_asked"
                    ELSE IF env.verdict.kind = "fail" THEN "error"
                    ELSE IF includes(responseUpper, K_UNIQUE) THEN "unique"
                    ELSE IF includes(responseUpper, K_DUPLICATE) THEN "duplicate"
                    ELSE "unparsable"]

DdIdle ==
    [pc |-> "idle", qaPairs |-> <<>>, uniquePairs |-> <<>>, checked |-> <<>>,
     result |-> <<>>, caught |-> FALSE, searchable |-> TRUE]

\* lines 426-437: the call starts; without a search service every pair is
\* returned, and an empty list is returned as it is
DDStart ==
    /\ dd.pc = "idle"
    /\ \E qaPairs \in DedupInputs, searchable \in BOOLEAN :
         dd' = IF ~searchable
               THEN [DdIdle EXCEPT !.pc = "done", !.qaPairs = qaPairs,
                                   !.result = qaPairs, !.searchable = FALSE]
               ELSE IF Len(qaPairs) = 0
               THEN [DdIdle EXCEPT !.pc = "done"]
               ELSE [DdIdle EXCEPT !.pc = "loop", !.qaPairs = qaPairs]
    /\ UNCHANGED <<gr, initialized, indexPresent, store, summaries, now, today,
                   lastSummaryDate, pendingSummary, last, sched, hs, ini, up, cur, conversationService>>

\* the next pair is checked; a rejection of hybridSearch is caught on lines
\* 572-578, which return all the input pairs
DDPair ==
    /\ dd.pc = "loop"
    /\ \E env \in DedupEnvs :
         /\ env.qPath = "initThrows" => ~initialized
         /\ IF env.qPath = "initThrows"
            THEN /\ dd' = [dd EXCEPT !.pc = "done", !.caught = TRUE,
                                     !.result = dd.qaPairs]
                 /\ UNCHANGED <<initialized, indexPresent>>
            ELSE LET c == CheckPair(env)
                     pair == dd.qaPairs[Len(dd.checked) + 1]
                     uniquePairs == IF c.keep THEN Append(dd.uniquePairs, pair)
                                    ELSE dd.uniquePairs
                     last_one == Len(dd.checked) + 1 = Len(dd.qaPairs)
                 IN /\ dd' = [dd EXCEPT !.uniquePairs = uniquePairs,
                                        !.checked = Append(@, c),
                                        !.pc = IF last_one THEN "done" ELSE "loop",
                                        !.result = IF last_one THEN uniquePairs ELSE <<>>]
                    /\ initialized' = TRUE
                    /\ indexPresent' = TRUE
    /\ UNCHANGED <<gr, store, summaries, now, today,
                   lastSummaryDate, pendingSummary, last, sched, hs, ini, up, cur, conversationService>>

\* the caller takes the list
DDReturn ==
    /\ dd.pc = "done"
    /\ dd' = DdIdle
    /\ UNCHANGED <<gr, initialized, indexPresent, store, summaries, now, today,
                   lastSummaryDate, pendingSummary, last, sched, hs, ini, up, cur, conversationService>>

----------------------------------------------------------------------------
(* KnowledgeBaseReviewService.generateDailySummary step by step *)

\* message texts of a transcript
M_front_desk == <<"f", "r", "o", "n", "t", " ", "d", "e", "s", "k">>
M_Front_Desk_padded == <<" ", "F", "r", "o", "n", "t", " ", "D", "e", "s", "k", " ">>
M_good_day_padded == <<" ", " ", "g", "o", "o", "d", " ", "d", "a", "y", "!", " ">>

Message(role, content) == [role |-> role, content |-> content]
Messages ==
    {Message("user", c) : c \in {M_front_desk, M_Front_Desk_padded, M_good_day_padded}}
    \cup {Message("assistant", M_front_desk)}

\* getConversationsForDate: the transcripts of the date by conversation, in
\* the order Object.entries visits them
MessageLists == UNION {[1..n -> Messages] : n \in 0..MaxMessages}
Conversation(id, messages) == [id |-> id, messages |-> messages]
ConversationBatches ==
    {<<Conversation("c1", a), Conversation("c2", b)>> : a, b \in MessageLists}

MIN_MESSAGE_LENGTH == 10

\* line 367: message.content.toLowerCase().trim()
normalizedContent(message) == trim(toLowerCase(message.content))

\* line 375: `${message.role}:${normalizedContent}`
messageKey(message) == [role |-> message.role, content |-> normalizedContent(message)]

RECURSIVE uniqueMessages(_, _)
\* lines 365-388: the loop over the messages of one conversation;
\* seenMessages is shared by all the conversations of the batch
uniqueMessages(messages, seenMessages) ==
    IF messages = <<>> THEN [unique |-> <<>>, seen |-> seenMessages]
    ELSE LET message == Head(messages)
             skip == \/ Len(normalizedContent(message)) < MIN_MESSAGE_LENGTH
                     \/ messageKey(message) \in seenMessages
             rest == uniqueMessages(Tail(messages),
                                    IF skip THEN seenMessages
                                    ELSE seenMessages \cup {messageKey(message)})
         IN [unique |-> IF skip THEN rest.unique ELSE <<message>> \o rest.unique,
             seen |-> rest.seen]

RECURSIVE FilterConversations(_, _)
\* lines 358-393: the loop over the conversations; one without a retained
\* message gets no entry
FilterConversations(conversations, seenMessages) ==
    IF conversations = <<>> THEN <<>>
    ELSE LET c == Head(conversations)
             u == uniqueMessages(c.messages, seenMessages)
         IN (IF u.unique # <<>> THEN <<Conversation(c.id, u.unique)>> ELSE <<>>)
            \o FilterConversations(Tail(conversations), u.seen)

filterUniqueConversations_PerConversation(conversations) ==
    SelectSeq([i \in 1..Len(conversations) |->
                  Conversation(conversations[i].id,
                               uniqueMessages(conversations[i].messages, {}).unique)],
              LAMBDA c : c.messages # <<>>)

\* KnowledgeBaseReviewService.filterUniqueConversations
filterUniqueConversations(conversations) == FilterConversations(conversations, {})

\* the pair a well-behaved extraction oracle finds in a conversation
PairOf(id) == IF id = "c1" THEN PairX ELSE PairBadge
PairsOf(conversations) == [i \in 1..Len(conversations) |-> PairOf(conversations[i].id)]

NoConversation == "none"

CurIdle ==
    [pc |-> "idle", raw |-> <<>>, conversations |-> <<>>, qaPairs |-> <<>>,
     result |-> EmptyText, failedOn |-> NoConversation]

\* lines 858-903: the transcripts of the date are read and filtered; the text
\* of an active summary of the date is returned if there is one
CurCall ==
    /\ cur.pc = "idle"
    /\ \E raw \in ConversationBatches, dbReadOk \in BOOLEAN :
         LET active == ActiveSummaries(summaries, today)
             first == CHOOSE id \in active :
                          \A o \in active : summaries[id].createdAt <= summaries[o].createdAt
             c == [CurIdle EXCEPT !.raw = raw,
                                  !.conversations = filterUniqueConversations(raw)]
         IN cur' = IF dbReadOk /\ active # {}
                   THEN [c EXCEPT !.pc = "done", !.result = summaries[first].summaryText]
                   ELSE [c EXCEPT !.pc = "extract"]
    /\ UNCHANGED <<gr, initialized, indexPresent, store, summaries, now, today,
                   lastSummaryDate, pendingSummary, last, sched, dd, hs, ini, up, conversationService>>

\* lines 905-940: one extraction request carries all the filtered
\* conversations (JSON.stringify(conversations)); it answers, or it rejects
\* over the transcripts of one of them (failedOn), and the rejection leaves
\* generateDailySummary
CurExtract ==
    /\ cur.pc = "extract"
    /\ \/ cur' = [cur EXCEPT !.pc = "dedup", !.qaPairs = PairsOf(cur.conversations)]
       \/ \E i \in 1..Len(cur.conversations) :
            cur' = [cur EXCEPT !.pc = "threw", !.failedOn = cur.conversations[i].id]
    /\ UNCHANGED <<gr, initialized, indexPresent, store, summaries, now, today,
                   lastSummaryDate, pendingSummary, last, sched, dd, hs, ini, up, conversationService>>

\* lines 942-949: filterDuplicatePairs returns some of the pairs, in their
\* order; the result is formatted
CurDedup ==
    /\ cur.pc = "dedup"
    /\ \E keep \in SUBSET (1..Len(cur.qaPairs)) :
         LET uniquePairs ==
               SelectSeq(cur.qaPairs,
                         LAMBDA pair : \E k \in keep : cur.qaPairs[k] = pair)
         IN cur' = [cur EXCEPT !.pc = "done", !.qaPairs = uniquePairs,
                               !.result = formatQAPairs(uniquePairs)]
    /\ UNCHANGED <<gr, initialized, indexPresent, store, summaries, now, today,
                   lastSummaryDate, pendingSummary, last, sched, dd, hs, ini, up, conversationService>>

\* the caller takes the text, or catches the rejection
CurReturn ==
    /\ cur.pc \in {"done", "threw"}
    /\ cur' = CurIdle
    /\ UNCHANGED <<gr, initialized, indexPresent, store, summaries, now, today,
                   lastSummaryDate, pendingSummary, last, sched, dd, hs, ini, up, conversationService>>

----------------------------------------------------------------------------
(* ConversationService: the in-memory history *)

ConversationIds == {"c1", "c2"}

\* Array.prototype.slice(start) for 0 <= start
slice(array, start) == SubSeq(array, start + 1, Len(array))

NoHistory == [c \in ConversationIds |-> <<>>]

\* the object after its constructor: loadConversationsFromDisk (lines 47-85)
\* sets the history of a conversation to the array found in a conversations
\* file, whatever its length; messages are numbered in the order the
\* conversation received them, and received counts them
ConversationService(messageRetentionCount, loaded) ==
    [MESSAGE_RETENTION_COUNT |-> messageRetentionCount,
     conversationHistory |-> loaded,
     received |-> [c \in ConversationIds |-> Len(loaded[c])],
     addedTo |-> {}]

\* the arrays a conversations file holds for a conversation: the messages
\* saveConversationsForDate merged into it (lines 339-372), in time order
LoadedHistories ==
    {[c \in ConversationIds |-> [i \in 1..n[c] |-> i]] :
        n \in [ConversationIds -> 0..MaxLoaded]}

addMessageToHistory_NoTrim(history, message, retention) == Append(history, message)

\* lines 177-189: push, then keep the last MESSAGE_RETENTION_COUNT
addMessageToHistory(history, message, retention) ==
    LET pushed == Append(history, message)
    IN IF Len(pushed) > retention
       THEN slice(pushed, Len(pushed) - retention)
       ELSE pushed

\* ConversationService.addMessageToHistory(conversationId, message); writing
\* the message to the database or the file leaves the history as it is
AddMessageToHistory ==
    /\ \E conversationId \in ConversationIds :
         /\ conversationService.received[conversationId] < MaxReceived
         /\ LET message == conversationService.received[conversationId] + 1
            IN conversationService' =
                 [conversationService EXCEPT
                    !.conversationHistory[conversationId] =
                        addMessageToHistory(@, message,
                                            conversationService.MESSAGE_RETENTION_COUNT),
                    !.received[conversationId] = message,
                    !.addedTo = @ \cup {conversationId}]
    /\ UNCHANGED <<gr, initialized, indexPresent, store, summaries, now, today,
                   lastSummaryDate, pendingSummary, last, sched, dd, hs, ini, up, cur>>

----------------------------------------------------------------------------
(* AzureSearchService.hybridSearch as its callers see it *)

\* the topK and threshold arguments the callers pass (ragService.ts:91,
\* knowledgeBaseReviewService.ts:458-481, config.ts:275)
TopKs == {1, 3, 5}
Thresholds == {RETRIEVAL_MIN_SCORE, SEARCH_THRESHOLD}

HsIdle ==
    [pc |-> "idle", path |-> "hybrid", topK |-> 0, threshold |-> 0,
     results |-> <<>>, threw |-> FALSE]

\* one call of hybridSearch, from the initialize() on line 387 to the return
\* or the rejection
HSCall ==
    /\ hs.pc = "idle"
    /\ \E path \in SearchPaths, raw \in RawHitLists \cup DedupHitLists,
          topK \in TopKs, threshold \in Thresholds :
         /\ path = "initThrows" => ~initialized
         /\ LET r == hybridSearch(path, raw, topK, threshold)
            IN hs' = [pc |-> "done", path |-> path, topK |-> topK,
                      threshold |-> threshold, results |-> r.results,
                      threw |-> r.threw]
         /\ initialized' = IF path = "initThrows" THEN initialized ELSE TRUE
         /\ indexPresent' = IF path = "initThrows" THEN indexPresent ELSE TRUE
    /\ UNCHANGED <<gr, store, summaries, now, today, lastSummaryDate,
                   pendingSummary, last, sched, dd, ini, up, cur, conversationService>>

\* the caller takes the results or the exception
HSReturn ==
    /\ hs.pc = "done"
    /\ hs' = HsIdle
    /\ UNCHANGED <<gr, initialized, indexPresent, store, summaries, now, today,
                   lastSummaryDate, pendingSummary, last, sched, dd, ini, up, cur, conversationService>>

----------------------------------------------------------------------------
(* AzureSearchService.initialize, called concurrently *)

\* the operations that await initialize() while initialized is false
Callers == 1..MaxCallers

IniIdle == [pc |-> "idle", error |-> "none"]

\* line 111: if (this.initialized) return; otherwise up to the await of
\* indexExists() on line 121
IniCall(c) ==
    /\ ini[c].pc = "idle"
    /\ ini' = [ini EXCEPT ![c] = [IniIdle EXCEPT !.pc =
                                    IF initialized THEN "done" ELSE "exists"]]
    /\ UNCHANGED <<gr, initialized, indexPresent, store, summaries, now, today,
                   lastSummaryDate, pendingSummary, last, sched, dd, hs, up, cur, conversationService>>

\* lines 121-129: getIndex answers (found, or 404), or rejects otherwise
IniExists(c) ==
    /\ ini[c].pc = "exists"
    /\ \/ /\ indexPresent
          /\ initialized' = TRUE
          /\ ini' = [ini EXCEPT ![c].pc = "done"]
       \/ /\ ~indexPresent
          /\ UNCHANGED initialized
          /\ ini' = [ini EXCEPT ![c].pc = "create"]
       \/ /\ UNCHANGED initialized
          /\ ini' = [ini EXCEPT ![c] = [pc |-> "failed", error |-> "provider"]]
    /\ UNCHANGED <<gr, indexPresent, store, summaries, now, today,
                   lastSummaryDate, pendingSummary, last, sched, dd, hs, up, cur, conversationService>>

\* initialized is set in a finally block
IniCreate_FlagInFinally(c) ==
    /\ ini[c].pc = "create"
    /\ \/ /\ indexPresent' = TRUE
          /\ initialized' = TRUE
          /\ ini' = [ini EXCEPT ![c].pc = "done"]
       \/ /\ UNCHANGED indexPresent
          /\ initialized' = TRUE
          /\ ini' = [ini EXCEPT ![c] =
                       [pc |-> "failed",
                        error |-> IF indexPresent THEN "conflict" ELSE "provider"]]
    /\ UNCHANGED <<gr, store, summaries, now, today,
                   lastSummaryDate, pendingSummary, last, sched, dd, hs, up, cur, conversationService>>

\* lines 123-130: createIndex() is issued; the provider creates the index,
\* or rejects; for an index that exists by now it may reject with a conflict
IniCreate(c) ==
    /\ ini[c].pc = "create"
    /\ \/ /\ indexPresent' = TRUE
          /\ initialized' = TRUE
          /\ ini' = [ini EXCEPT ![c].pc = "done"]
       \/ /\ UNCHANGED <<indexPresent, initialized>>
          /\ ini' = [ini EXCEPT ![c] =
                       [pc |-> "failed",
                        error |-> IF indexPresent THEN "conflict" ELSE "provider"]]
    /\ UNCHANGED <<gr, store, summaries, now, today,
                   lastSummaryDate, pendingSummary, last, sched, dd, hs, up, cur, conversationService>>

\* the caller goes on, or handles the rejection
IniReturn(c) ==
    /\ ini[c].pc \in {"done", "failed"}
    /\ ini' = [ini EXCEPT ![c] = IniIdle]
    /\ UNCHANGED <<gr, initialized, indexPresent, store, summaries, now, today,
                   lastSummaryDate, pendingSummary, last, sched, dd, hs, up, cur, conversationService>>

----------------------------------------------------------------------------
(* AzureSearchService.upsertDocuments step by step, as the migration script *)
(* calls it: documents keyed kb_<n>, possibly by two runs at once           *)

Upserters == 1..MaxUpserters

\* kb_<n>
KbId(n) == [summaryId |-> MigratedSource, ts |-> 0, index |-> n]

Doc(n, question, answer, content, embedding) ==
    [id |-> KbId(n), content |-> content, question |-> question, answer |-> answer,
     source |-> MigratedSource, status |-> "approved", embedding |-> embedding]

\* document lists handed to upsertDocuments
UpsertBatches ==
    { <<>>,
      <<Doc(0, <<"faq">>, <<<<"faq">>>>, <<<<"faq">>>>, NoEmbedding)>>,
      <<Doc(0, <<"faq">>, <<<<"new">>>>, <<<<"new">>>>, NoEmbedding)>>,
      <<Doc(1, <<>>, <<>>, <<<<"note">>>>, NoEmbedding),
        Doc(0, <<"faq">>, <<<<"faq">>>>, <<<<"faq">>>>, NoEmbedding)>>,
      <<Doc(1, <<"hours">>, <<>>, <<<<"9", "to", "5">>>>, NoEmbedding)>>,
      <<Doc(1, <<"hours">>, <<<<"9", "to", "5">>>>, <<<<"9", "to", "5">>>>,
            SuppliedEmbedding)>> }

\* countBefore, countAfter, known and latest are history: the document
\* count around the upload, whether every id was stored before it, and the
\* ids for which this upload is the latest one
UpIdle ==
    [pc |-> "idle", docs |-> <<>>, error |-> "none", wrote |-> FALSE,
     countBefore |-> 0, countAfter |-> 0, known |-> FALSE, latest |-> {}]

\* ids of the documents of a list
DocIds(docs) == {docs[i].id : i \in 1..Len(docs)}

\* lines 272-281: initialize() if needed, return on an empty list
UpCall(u) ==
    /\ up[u].pc = "idle"
    /\ \E docs \in UpsertBatches, initOk \in BOOLEAN :
         /\ ~initOk => ~initialized
         /\ IF ~initOk
            THEN /\ up' = [up EXCEPT ![u] = [UpIdle EXCEPT !.pc = "failed",
                                                           !.docs = docs,
                                                           !.error = "initialize"]]
                 /\ UNCHANGED <<initialized, indexPresent>>
            ELSE /\ up' = [up EXCEPT ![u] =
                     [UpIdle EXCEPT !.docs = docs,
                                    !.pc = IF Len(docs) = 0 THEN "done"
                                           ELSE IF \E i \in 1..Len(docs) :
                                                     docs[i].embedding = NoEmbedding
                                           THEN "embed" ELSE "write"]]
                 /\ initialized' = TRUE
                 /\ indexPresent' = TRUE
    /\ UNCHANGED <<gr, store, summaries, now, today, lastSummaryDate,
                   pendingSummary, last, sched, dd, hs, ini, cur, conversationService>>

\* lines 283-295: generateEmbeddings answers, or rejects
UpEmbed(u) ==
    /\ up[u].pc = "embed"
    /\ \/ up' = [up EXCEPT ![u].pc = "write", ![u].docs = WithEmbeddings(@)]
       \/ up' = [up EXCEPT ![u].pc = "failed", ![u].error = "embedding"]
    /\ UNCHANGED <<gr, initialized, indexPresent, store, summaries, now, today,
                   lastSummaryDate, pendingSummary, last, sched, dd, hs, ini, cur, conversationService>>

\* lines 297-308: the batch is uploaded, or the upload rejects
UpWrite(u) ==
    /\ up[u].pc = "write"
    /\ \/ /\ store' = mergeOrUploadDocuments(store, up[u].docs)
          /\ up' = [v \in Upserters |->
                       IF v = u
                       THEN [up[u] EXCEPT
                               !.pc = "done", !.wrote = TRUE,
                               !.known = DocIds(up[u].docs) \subseteq DOMAIN store,
                               !.countBefore = Cardinality(DOMAIN store),
                               !.countAfter = Cardinality(DOMAIN store'),
                               !.latest = DocIds(up[u].docs)]
                       ELSE [up[v] EXCEPT !.latest = @ \ DocIds(up[u].docs)]]
       \/ /\ UNCHANGED store
          /\ up' = [up EXCEPT ![u].pc = "failed", ![u].error = "upload"]
    /\ UNCHANGED <<gr, initialized, indexPresent, summaries, now, today,
                   lastSummaryDate, pendingSummary, last, sched, dd, hs, ini, cur, conversationService>>

\* the caller goes on, or handles the rejection
UpReturn(u) ==
    /\ up[u].pc \in {"done", "failed"}
    /\ up' = [up EXCEPT ![u] = UpIdle]
    /\ UNCHANGED <<gr, initialized, indexPresent, store, summaries, now, today,
                   lastSummaryDate, pendingSummary, last, sched, dd, hs, ini, cur, conversationService>>

----------------------------------------------------------------------------
(* Specifications *)

\* no operation is in flight
InitOps ==
    /\ sched = [i \in Invocations |-> SchedIdle]
    /\ dd = DdIdle
    /\ hs = HsIdle
    /\ ini = [c \in Callers |-> IniIdle]
    /\ up = [u \in Upserters |-> UpIdle]
    /\ cur = CurIdle
    /\ conversationService = ConversationService(MaxRetention, NoHistory)

Init ==
    /\ gr = GrIdle
    /\ initialized = FALSE
    /\ indexPresent \in BOOLEAN
    /\ store = IF indexPresent THEN (MigratedDoc.id :> MigratedDoc) ELSE <<>>
    /\ summaries = <<>>
    /\ now = 1
    /\ today = 1
    /\ lastSummaryDate = NoDate
    /\ pendingSummary = NoPending
    /\ last = [kind |-> "none"]
    /\ InitOps

\* a process started over a database that already holds a summary which an
\* earlier run generated and sent: review persistence outlives the process,
\* the scheduler's lastSummaryDate and pendingSummary do not
PersistedId == SummaryId(1, 0)
InitPersisted ==
    /\ gr = GrIdle
    /\ initialized = FALSE
    /\ indexPresent = TRUE
    /\ store = (MigratedDoc.id :> MigratedDoc)
    /\ summaries = createKBSummary(<<>>, PersistedId, 1, formatQAPairs(<<PairX>>), 0)
    /\ now = 1
    /\ today = 1
    /\ lastSummaryDate = NoDate
    /\ pendingSummary = NoPending
    /\ last = [kind |-> "none"]
    /\ InitOps

NextAnswer == GRSearch \/ GRScore \/ GRGenerate \/ GRReturn

NextReview == HandleKBReviewMessage \/ CheckAndSendSummary \/ NextDay \/ Finish

Next == NextAnswer \/ NextReview

\* the answering path alone
SpecAnswer == Init /\ [][NextAnswer]_vars

\* the review workflow and the scheduler alone
SpecReview == Init /\ [][NextReview]_vars

\* the review workflow and the scheduler after a restart
SpecLifecycle == InitPersisted /\ [][NextReview]_vars

\* the rows a run of the process may find in the database when it starts:
\* none, or the summary of day 1 as sent, approved or sent back for changes
PersistedSummaries ==
    LET sent == createKBSummary(<<>>, PersistedId, 1, formatQAPairs(<<PairX>>), 0)
    IN { <<>>, sent,
         updateKBSummaryStatus(sent, PersistedId, "approved", N_reviewer, Undefined),
         updateKBSummaryStatus(sent, PersistedId, "changes_required", N_reviewer,
                               Lines(<<Ln("other", <<"please", "fix">>)>>)) }

InitFire ==
    /\ gr = GrIdle
    /\ initialized = FALSE
    /\ indexPresent = TRUE
    /\ store = (MigratedDoc.id :> MigratedDoc)
    /\ summaries \in PersistedSummaries
    /\ now = 1
    /\ today = 1
    /\ lastSummaryDate = NoDate
    /\ pendingSummary = NoPending
    /\ last = [kind |-> "none"]
    /\ InitOps

NextFire == CheckAndSendSummary \/ NextDay \/ Finish

\* the scheduler alone, one invocation at a time, over the days
SpecFire == InitFire /\ [][NextFire]_vars

InitHistory ==
    /\ gr = GrIdle
    /\ initialized = FALSE
    /\ indexPresent = TRUE
    /\ store = (MigratedDoc.id :> MigratedDoc)
    /\ summaries = <<>>
    /\ now = 1
    /\ today = 1
    /\ lastSummaryDate = NoDate
    /\ pendingSummary = NoPending
    /\ last = [kind |-> "none"]
    /\ sched = [i \in Invocations |-> SchedIdle]
    /\ dd = DdIdle
    /\ hs = HsIdle
    /\ ini = [c \in Callers |-> IniIdle]
    /\ up = [u \in Upserters |-> UpIdle]
    /\ cur = CurIdle
    /\ \E messageRetentionCount \in 1..MaxRetention, loaded \in LoadedHistories :
         conversationService = ConversationService(messageRetentionCount, loaded)

NextHistory == AddMessageToHistory

\* the in-memory history alone
SpecHistory == InitHistory /\ [][NextHistory]_vars

NextParse == ParseReview \/ Finish

\* the parsing of review messages alone
SpecParse == InitFire /\ [][NextParse]_vars

NextCuration == CurCall \/ CurExtract \/ CurDedup \/ CurReturn

\* generateDailySummary alone
SpecCuration == InitFire /\ [][NextCuration]_vars

\* the scheduler with overlapping invocations
NextScheduler ==
    \/ \E i \in Invocations : SchedTick(i)
    \/ \E i \in Invocations : SchedBacklog(i)
    \/ \E i \in Invocations : SchedFresh(i)
    \/ \E i \in Invocations : SchedSend(i)
    \/ NextDay

SpecScheduler == Init /\ [][NextScheduler]_vars

\* the dedup step alone
NextDedup == DDStart \/ DDPair \/ DDReturn

SpecDedup == Init /\ [][NextDedup]_vars

\* Knowledge Store searches alone
NextSearch == HSCall \/ HSReturn

SpecSearch == Init /\ [][NextSearch]_vars

\* concurrent initialize() calls alone
NextInitialize ==
    \/ \E c \in Callers : IniCall(c)
    \/ \E c \in Callers : IniExists(c)
    \/ \E c \in Callers : IniCreate(c)
    \/ \E c \in Callers : IniReturn(c)

SpecInitialize == Init /\ [][NextInitialize]_vars

\* concurrent upserts alone
NextUpsert ==
    \/ \E u \in Upserters : UpCall(u)
    \/ \E u \in Upserters : UpEmbed(u)
    \/ \E u \in Upserters : UpWrite(u)
    \/ \E u \in Upserters : UpReturn(u)

SpecUpsert == Init /\ [][NextUpsert]_vars

Spec ==
    Init /\ [][Next \/ NextScheduler \/ NextDedup \/ NextSearch \/ NextInitialize
                 \/ NextUpsert]_vars

----------------------------------------------------------------------------
(* Properties of the answering path *)

\* C1: whenever the confidence obtained from the scorer is below 0.7 the call
\* returns NO_ANSWER, and a text other than NO_ANSWER is returned only when a
\* confidence was obtained and it is at least 0.7.
C1_ConfidenceGate ==
    gr.pc = "done" =>
        /\ (gr.scoreInvoked /\ gr.confidence < 70) => gr.result = NO_ANSWER
        /\ gr.result # NO_ANSWER => (gr.scoreInvoked /\ gr.confidence >= 70)

C1_Witness ==
    gr.pc = "done" /\ gr.scoreCalled /\ gr.confidence = 69 /\ gr.result = NO_ANSWER

\* C2: when the search yields zero chunks the call returns NO_ANSWER and
\* neither the relevance scorer nor the answer generator is invoked.
C2_EmptySearch ==
    (gr.searched /\ gr.relevantKnowledge = <<>> /\ gr.pc # "idle") =>
        /\ gr.pc = "done"
        /\ gr.result = NO_ANSWER
        /\ ~gr.scoreInvoked /\ ~gr.scoreCalled /\ ~gr.genCalled

C2_Witness ==
    gr.pc = "done" /\ gr.searched /\ gr.relevantKnowledge = <<>> /\ gr.failed = {}

\* C3: a call in which the search, the scorer or the generator failed (or
\* timed out) still returns a value, and that value is NO_ANSWER.
C3_FailuresYieldNoAnswer ==
    /\ gr.pc \in {"idle", "score", "generate", "done"}
    /\ (gr.pc = "done" /\ gr.failed # {}) => gr.result = NO_ANSWER

C3_Witness ==
    gr.pc = "done" /\ "score" \in gr.failed /\ gr.result = NO_ANSWER

\* the oracle texts that contain one of the six phrases, ignoring case
TextsWithUncertaintyPhrase ==
    {R_dont_know_upper, R_not_sure, R_cannot, R_unable_inside, R_no_info, R_not_avail}

\* C27: when the confidence gate has passed, the answer context consists of
\* the chunks the scorer returned as relevant if there are any, and of all
\* the retrieved chunks otherwise.
C27_ContextFromRelevant ==
    (gr.pc \in {"generate", "done"} /\ gr.scoreCalled /\ gr.confidence >= 70) =>
        /\ gr.relevantChunks # <<>> => gr.context = gr.relevantChunks
        /\ gr.relevantChunks = <<>> => gr.context = gr.relevantKnowledge

C27_Witness ==
    /\ gr.pc = "generate" /\ gr.confidence >= 70
    /\ gr.relevantChunks = <<>> /\ Len(gr.relevantKnowledge) = 2
    /\ gr.context = gr.relevantKnowledge

\* C28: the confidence the scorer returns lies between 0 and 1: a raw value
\* above 1 gives 1, below 0 gives 0, a missing or non-numeric one gives 0, any
\* other raw value is returned as it is, and a failed scoring call gives a
\* confidence below the gate's 0.7.
C28_ConfidenceClamped ==
    gr.scoreCalled =>
        /\ gr.confidence \in 0..100
        /\ "score" \in gr.failed => gr.confidence < 70
        /\ "score" \notin gr.failed =>
               /\ ~gr.rawConfidence.isNumber => gr.confidence = 0
               /\ (gr.rawConfidence.isNumber /\ gr.rawConfidence.val > 100) =>
                      gr.confidence = 100
               /\ (gr.rawConfidence.isNumber /\ gr.rawConfidence.val < 0) =>
                      gr.confidence = 0
               /\ (gr.rawConfidence.isNumber /\ gr.rawConfidence.val \in 0..100) =>
                      gr.confidence = gr.rawConfidence.val

C28_Witness ==
    /\ gr.scoreCalled /\ "score" \notin gr.failed
    /\ gr.rawConfidence = Num(150) /\ gr.confidence = 100 /\ gr.pc = "generate"

\* C36: when the confidence is at least 0.7 and the assembled context is
\* empty or shorter than 10 characters, generateResponse returns NO_ANSWER
\* and the answer-generation oracle is not called.
C36_ShortContextNoAnswer ==
    LET chars == IF gr.context = <<>> THEN 0
                 ELSE SumLen(gr.context) + 2 * (Len(gr.context) - 1)
    IN (/\ gr.pc \in {"generate", "done"}
        /\ gr.scoreInvoked
        /\ gr.confidence >= 70
        /\ chars < 10) =>
           /\ gr.pc = "done"
           /\ gr.result = NO_ANSWER
           /\ ~gr.genCalled
           /\ gr.response = NoText

C36_Witness ==
    /\ gr.pc = "done" /\ gr.confidence >= 70
    /\ gr.context = <<"c_mid">>
    /\ gr.relevantChunks = <<"c_mid">>
    /\ gr.result = NO_ANSWER /\ ~gr.genCalled

\* C4: once the generator has answered, a text containing one of the six
\* uncertainty phrases (in any letter case) is replaced by NO_ANSWER and any
\* other text is returned unchanged.
C4_PostCheck ==
    (gr.pc = "done" /\ gr.genCalled /\ "generate" \notin gr.failed) =>
        /\ gr.confidence >= 70
        /\ gr.response \in TextsWithUncertaintyPhrase => gr.result = NO_ANSWER
        /\ gr.response \notin TextsWithUncertaintyPhrase => gr.result = gr.response

C4_Witness ==
    gr.pc = "done" /\ gr.response = R_dont_know_upper /\ gr.result = NO_ANSWER

----------------------------------------------------------------------------
(* Properties of the review workflow *)

\* the senders whose normalized name is a configured reviewer
AuthorizedSenders == {N_reviewer}

\* the review that has just been handled
Reviewed == last.kind = "review"
ReviewedId == last.parsed.summaryId
ReviewedExisting == Reviewed /\ ReviewedId \in DOMAIN last.pre.summaries

\* documents in the store that were not there before the last event
NewDocs == {store[d] : d \in DOMAIN store \ DOMAIN last.pre.store}

\* exactly the given pairs were added, as approved documents of the summary
CommittedExactly(pairs, summaryId) ==
    /\ Cardinality(NewDocs) = Len(pairs)
    /\ \A i \in 1..Len(pairs) :
         \E d \in NewDocs : /\ d.question = pairs[i].question
                            /\ d.answer = pairs[i].answer
                            /\ d.source = summaryId
                            /\ d.status = "approved"
    /\ \A d \in DOMAIN last.pre.store : store[d] = last.pre.store[d]

\* C5: a step that writes a document to the Knowledge Store is the handling
\* of an approved or changes_required review sent by an authorized reviewer,
\* and a written document whose source is a summary id carries the id of the
\* reviewed summary; the scheduler (extraction, deduplication included) never
\* changes the store.
C5_HumanReviewGate ==
    [][ \A d \in DOMAIN store' :
          (d \notin DOMAIN store \/ store'[d] # store[d]) =>
              /\ last'.kind = "review"
              /\ last'.reached
              /\ last'.sender \in AuthorizedSenders
              /\ last'.parsed.action \in {"approved", "changes_required"}
              /\ last'.parsed.summaryId \in DOMAIN summaries
              /\ IsSummarySource(store'[d].source)
              /\ store'[d].source = last'.parsed.summaryId ]_vars

C5_Witness ==
    /\ Reviewed /\ last.sender \in AuthorizedSenders
    /\ \E d \in NewDocs : d.source = ReviewedId

\* C6: an authorized approval without changes text of a summary in status
\* sent upserts exactly the pairs parsed from summaryText, each with source
\* the summary id and status approved, and sets the summary's status to
\* approved.
C6_ApproveCommitsPairs ==
    (/\ ReviewedExisting
     /\ last.parsed.isValid
     /\ last.sender \in AuthorizedSenders
     /\ last.fault = "none"
     /\ last.parsed.action = "approved"
     /\ ~Truthy(last.parsed.changes)
     /\ last.pre.summaries[ReviewedId].status = "sent") =>
        /\ CommittedExactly(parseQAPairs(last.pre.summaries[ReviewedId].summaryText),
                            ReviewedId)
        /\ summaries[ReviewedId].status = "approved"

\* C7: an authorized changes_required review with replacement text of a
\* summary in status sent upserts the pairs parsed from the replacement text
\* and leaves the summary with status changes_required and the replacement
\* text in its changes field.
C7_ChangesRequiredCommit ==
    (/\ ReviewedExisting
     /\ last.parsed.isValid
     /\ last.sender \in AuthorizedSenders
     /\ last.fault = "none"
     /\ last.parsed.action = "changes_required"
     /\ Truthy(last.parsed.changes)
     /\ last.pre.summaries[ReviewedId].status = "sent") =>
        /\ CommittedExactly(parseQAPairs(last.parsed.changes), ReviewedId)
        /\ summaries[ReviewedId].status = "changes_required"
        /\ summaries[ReviewedId].changes = last.parsed.changes

\* C8: an authorized rejection of a summary in status sent sets the
\* summary's status to rejected and writes nothing to the Knowledge Store.
C8_RejectMarksStatus ==
    (/\ ReviewedExisting
     /\ last.parsed.isValid
     /\ last.sender \in AuthorizedSenders
     /\ last.fault = "none"
     /\ last.parsed.action = "rejected"
     /\ last.pre.summaries[ReviewedId].status = "sent") =>
        /\ summaries[ReviewedId].status = "rejected"
        /\ store = last.pre.store

\* C32: an authorized approved review that carries non-empty changes text
\* upserts exactly the pairs parsed from the changes text (not those of the
\* stored summaryText) and leaves the summary with status approved.
C32_ApprovedWithChangesUsesChanges ==
    (/\ ReviewedExisting
     /\ last.parsed.isValid
     /\ last.sender \in AuthorizedSenders
     /\ last.fault = "none"
     /\ last.parsed.action = "approved"
     /\ Truthy(last.parsed.changes)) =>
        /\ CommittedExactly(parseQAPairs(last.parsed.changes), ReviewedId)
        /\ summaries[ReviewedId].status = "approved"

C32_Witness ==
    /\ ReviewedExisting /\ last.parsed.isValid /\ last.fault = "none"
    /\ last.sender \in AuthorizedSenders
    /\ last.parsed.action = "approved" /\ Truthy(last.parsed.changes)
    /\ parseQAPairs(last.parsed.changes)
           # parseQAPairs(last.pre.summaries[ReviewedId].summaryText)
    /\ parseQAPairs(last.parsed.changes) # <<>>
    /\ \E d \in NewDocs : d.question = parseQAPairs(last.parsed.changes)[1].question
    /\ summaries[ReviewedId].status = "approved"

C35_UnclearActionApproves ==
    (/\ last.kind = "parse"
     /\ last.msg.form = "piped"
     /\ last.msg.id # EmptyId
     /\ LET a == trim(toLowerCase(last.msg.text))
        IN /\ \A w \in {K_approved, K_rejected, K_changes, K_change} : ~includes(a, w)
           /\ a \notin {K_approve, K_reject}) =>
        /\ last.parsed.isValid
        /\ last.parsed.action = "approved"
        /\ last.parsed.summaryId = last.msg.id
        /\ last.parsed.changes = last.msg.changes

C35_Witness ==
    /\ last.kind = "parse"
    /\ last.msg = Piped(SummaryId(1, 0), T_ok, Undefined)
    /\ last.parsed.isValid
    /\ last.parsed.action = "approved"

\* C9: a review of an existing summary sent by someone who is not an
\* authorized reviewer changes neither the summaries nor the store, whatever
\* its action, and is answered with the authorization failure, not with a
\* result and not with a not-found report.
C9_UnauthorizedRefused ==
    (ReviewedExisting /\ last.sender \notin AuthorizedSenders) =>
        /\ summaries = last.pre.summaries
        /\ store = last.pre.store
        /\ last.reply \in {"unauthorized", "unauthorized_request"}
        /\ last.parsed.isValid => last.reply = "unauthorized"

C9_Witness ==
    /\ ReviewedExisting /\ last.sender = N_outsider
    /\ last.parsed.action = "rejected"
    /\ last.pre.summaries[ReviewedId].status = "sent"
    /\ last.reply = "unauthorized"

ReviewedStatuses == {"approved", "rejected", "changes_required"}

\* C11: a summary whose status is approved, rejected or changes_required
\* keeps that status in every later step, and no later step writes a
\* document whose source is that summary.
C11_ReviewedOnce ==
    [][ \A id \in DOMAIN summaries :
          summaries[id].status \in ReviewedStatuses =>
              /\ summaries'[id].status = summaries[id].status
              /\ \A d \in DOMAIN store' :
                    store'[d].source = id =>
                        (d \in DOMAIN store /\ store'[d] = store[d]) ]_vars

\* C13: no two summaries in status sent carry the same date.
C13_OneSentPerDate ==
    \A a, b \in DOMAIN summaries :
        (/\ summaries[a].status = "sent" /\ summaries[b].status = "sent"
         /\ summaries[a].date = summaries[b].date) => a = b

\* the summaries that daily generation stored for a date
GeneratedFor(d) ==
    {id \in DOMAIN summaries : id.kind = "summary" /\ summaries[id].date = d}

\* C12: however many invocations of checkAndSendSummary run on one date,
\* overlapping ones included, at most one summary is generated for that date.
C12_OncePerDate ==
    \A d \in 1..MaxDay : Cardinality(GeneratedFor(d)) <= 1

\* a fire has just ended, and none of its provider calls failed
Fired == last.kind = "fire"
NoCallFailed ==
    last.env = FireEnv(last.env.hasConversations, last.env.consolidatedPairs, "none")

\* the summaries the fire created, and the backlog it found
CreatedByFire == DOMAIN summaries \ DOMAIN last.pre.summaries
HadBacklog == SentIds(last.pre.summaries) # {}
OldestDate == last.pre.summaries[OldestPending(last.pre.summaries)].date

\* C22: a fire that finds the oldest unreviewed summary two or more days old
\* creates exactly one summary, a consolidated one in status sent extracted
\* from the conversations of the oldest unreviewed date through today, and
\* no per-day summary.
C22_ConsolidatesBacklog ==
    (Fired /\ NoCallFailed /\ HadBacklog /\ today - OldestDate >= 2) =>
        /\ CreatedByFire = {ConsolidatedId(OldestDate, today, last.at)}
        /\ \A id \in CreatedByFire : summaries[id].status = "sent"
        /\ last.extracted = {[from |-> OldestDate, to |-> today]}

\* C23: a fire that finds the oldest unreviewed summary one day old hands the
\* text and the id of that summary to delivery, creates no summary and does
\* not call the extraction oracle.
C23_ResendsSingleDay ==
    (Fired /\ NoCallFailed /\ last.env.hasConversations /\ HadBacklog
           /\ today - OldestDate = 1) =>
        /\ last.summaryId = OldestPending(last.pre.summaries)
        /\ last.summaryToSend =
               last.pre.summaries[OldestPending(last.pre.summaries)].summaryText
        /\ CreatedByFire = {}
        /\ last.extracted = {}

\* C24: a fire that finds no summary in status sent extracts from today's
\* conversations and creates exactly one summary, of today and in status
\* sent; and fresh generation happens only in a fire that found no summary
\* in status sent.
C24_FreshWhenNoBacklog ==
    Fired =>
        /\ (NoCallFailed /\ ~HadBacklog) =>
               /\ CreatedByFire = {SummaryId(today, last.at)}
               /\ \A id \in CreatedByFire :
                      summaries[id].status = "sent" /\ summaries[id].date = today
               /\ last.extracted = {[from |-> today, to |-> today]}
        /\ last.branch \in {"fresh", "fresh_after_backlog"} => ~HadBacklog

\* C30: a fire happens only while today is not recorded as fired; a fire
\* that ends without an escaping exception records today, whether or not a
\* text was produced or delivered; a fire whose summary generation throws
\* leaves the record as it was, so that the next poll fires again.
C30_DateRecorded ==
    [][(last.kind = "none" /\ last'.kind = "fire") =>
          /\ lastSummaryDate # today
          /\ ~last'.escaped => lastSummaryDate' = today
          /\ last'.escaped =>
                 /\ last'.env.dailyThrows
                 /\ lastSummaryDate' = lastSummaryDate
                 /\ lastSummaryDate' # today']_vars

C30_Witness ==
    /\ Fired /\ last.at = 2 /\ today = 1 /\ ~last.escaped
    /\ ~last.delivered /\ ~Truthy(last.summaryToSend)
    /\ last.pre.lastSummaryDate = NoDate
    /\ lastSummaryDate = today

\* C31: a summary id included in a message delivered to the review group
\* names a summary that review persistence holds at the time of delivery.
C31_DeliveredIdExists ==
    (Fired /\ last.delivered /\ last.summaryId # EmptyId)
        => last.summaryId \in DOMAIN summaries

----------------------------------------------------------------------------
(* Properties of the conversation history *)

\* the last n messages a conversation received, oldest first
MostRecent(conversationId, n) ==
    LET total == conversationService.received[conversationId]
        k == IF n < total THEN n ELSE total
    IN [i \in 1..k |-> total - k + i]

\* C38: once addMessageToHistory has been called, the in-memory history of
\* every conversation holds at most MESSAGE_RETENTION_COUNT messages, and
\* they are the messages the conversation received last, in the order it
\* received them.
C38_HistoryBounded ==
    conversationService.addedTo # {} =>
      \A c \in ConversationIds :
        /\ Len(conversationService.conversationHistory[c])
               <= conversationService.MESSAGE_RETENTION_COUNT
        /\ conversationService.conversationHistory[c]
               = MostRecent(c, conversationService.MESSAGE_RETENTION_COUNT)

\* ... which holds for the conversations addMessageToHistory was called for
HistoryBoundedAfterAdd ==
    \A c \in conversationService.addedTo :
        /\ Len(conversationService.conversationHistory[c])
               <= conversationService.MESSAGE_RETENTION_COUNT
        /\ conversationService.conversationHistory[c]
               = MostRecent(c, conversationService.MESSAGE_RETENTION_COUNT)

----------------------------------------------------------------------------
(* Properties of the curation pipeline *)

\* C21: when the extraction failed over the transcripts of one conversation,
\* generateDailySummary does not throw, the candidate pairs hold the pairs of
\* the other conversations and none of the failing one.
C21_BatchSurvivesFailure ==
    cur.failedOn # NoConversation =>
        /\ cur.pc # "threw"
        /\ \A i \in 1..Len(cur.conversations) :
             (\E k \in 1..Len(cur.qaPairs) : cur.qaPairs[k] = PairOf(cur.conversations[i].id))
                 <=> cur.conversations[i].id # cur.failedOn

\* the messages of a batch in the order they are visited, with their
\* conversation
Flat(conversations) ==
    LET pos == {<<i, j>> : i \in 1..Len(conversations), j \in 1..MaxMessages + 1}
        at == {p \in pos : p[2] <= Len(conversations[p[1]].messages)}
        Before(p, q) == p[1] < q[1] \/ (p[1] = q[1] /\ p[2] < q[2])
        Nth(n) == CHOOSE p \in at : Cardinality({q \in at : Before(q, p)}) = n - 1
    IN [n \in 1..Cardinality(at) |->
           [id |-> conversations[Nth(n)[1]].id,
            message |-> conversations[Nth(n)[1]].messages[Nth(n)[2]]]]

\* C29: the filtered batch holds, in their order and under their
\* conversation, exactly the messages whose lower-cased trimmed content has
\* at least 10 characters and which no earlier message of the batch equals
\* in role and lower-cased trimmed content; no conversation is left empty.
C29_UniquenessPreFilter ==
    cur.pc # "idle" =>
        LET F == Flat(cur.raw)
            Norm(m) == trim(toLowerCase(m.content))
            Kept(n) == /\ Len(Norm(F[n].message)) >= 10
                       /\ \A k \in 1..(n - 1) :
                            ~(/\ F[k].message.role = F[n].message.role
                              /\ Norm(F[k].message) = Norm(F[n].message))
            keep == SelectSeq([n \in 1..Len(F) |-> n], Kept)
        IN /\ Flat(cur.conversations) = [n \in 1..Len(keep) |-> F[keep[n]]]
           /\ \A i \in 1..Len(cur.conversations) : cur.conversations[i].messages # <<>>
           /\ \A i, j \in 1..Len(cur.conversations) :
                i < j => cur.conversations[i].id # cur.conversations[j].id

C29_Witness ==
    /\ cur.pc = "extract"
    /\ cur.raw = <<Conversation("c1", <<Message("user", M_good_day_padded),
                                        Message("user", M_front_desk)>>),
                   Conversation("c2", <<Message("user", M_Front_Desk_padded),
                                        Message("assistant", M_front_desk)>>)>>
    /\ cur.conversations =
           <<Conversation("c1", <<Message("user", M_front_desk)>>),
             Conversation("c2", <<Message("assistant", M_front_desk)>>)>>

----------------------------------------------------------------------------
(* Properties of the dedup step *)

\* is the pair among the pairs of the list
InList(pair, list) == \E k \in 1..Len(list) : list[k] = pair

\* C14: a candidate pair whose validation verdict contains neither DUPLICATE
\* nor UNIQUE is not among the pairs the dedup step returns.
C14_UnparsableIsDuplicate ==
    dd.pc = "done" =>
        \A k \in 1..Len(dd.checked) :
            dd.checked[k].verdict = "unparsable" => ~InList(dd.qaPairs[k], dd.result)

C14_Witness ==
    /\ dd.pc = "done" /\ Len(dd.checked) = 2
    /\ dd.checked[1].verdict = "unparsable"
    /\ dd.result = <<dd.qaPairs[2]>>

\* result is obtained from list by leaving elements out
IsSubSequence(result, list) ==
    \E keep \in SUBSET (1..Len(list)) :
        result = SelectSeq(list, LAMBDA x : \E k \in keep : list[k] = x)

\* C15: the list returned by the dedup step is a sub-sequence of the input,
\* and every returned pair was checked and either no stored document cleared
\* the similarity floor for it, or the oracle judged it UNIQUE, or the oracle
\* failed and its matches all score below 0.9.
C15_OnlyConfirmedUnique ==
    (dd.pc = "done" /\ dd.searchable) =>
        /\ IsSubSequence(dd.result, dd.qaPairs)
        /\ \A k \in 1..Len(dd.qaPairs) :
             InList(dd.qaPairs[k], dd.result) =>
                 /\ k <= Len(dd.checked)
                 /\ \/ ~dd.checked[k].cleared /\ ~dd.checked[k].clearedCombined
                    \/ dd.checked[k].verdict = "unique"
                    \/ /\ dd.checked[k].verdict = "error"
                       /\ dd.checked[k].bestScore < SCORE_DUPLICATE

\* C34: a pair whose validation call answered is dropped exactly when the
\* answer, compared without regard to case, contains DUPLICATE and not
\* UNIQUE, or contains neither word; an answer with both words keeps the
\* pair.
C34_VerdictClassification ==
    (dd.pc = "done" /\ dd.searchable /\ ~dd.caught) =>
        \A k \in 1..Len(dd.checked) :
            dd.checked[k].response.kind = "text" =>
                LET low == toLowerCase(dd.checked[k].response.text)
                    hasDuplicate == includes(low, toLowerCase(K_DUPLICATE))
                    hasUnique == includes(low, toLowerCase(K_UNIQUE))
                    duplicate == \/ hasDuplicate /\ ~hasUnique
                                 \/ ~hasDuplicate /\ ~hasUnique
                IN /\ ~InList(dd.qaPairs[k], dd.result) <=> duplicate
                   /\ (hasDuplicate /\ hasUnique) => InList(dd.qaPairs[k], dd.result)

C34_Witness ==
    /\ dd.pc = "done" /\ Len(dd.checked) = 2
    /\ dd.checked[1].response = Verdict("text", V_both)
    /\ dd.checked[2].response = Verdict("text", V_duplicate_padded)
    /\ dd.result = <<dd.qaPairs[1]>>

\* C25: when the validation call failed for a pair, the pair is dropped if
\* one of its matches scores at least 0.9 and kept otherwise, and the loop
\* goes on to the remaining pairs.
C25_OracleErrorFallsBackToScore ==
    (dd.pc = "done" /\ dd.searchable /\ ~dd.caught) =>
        /\ Len(dd.checked) = Len(dd.qaPairs)
        /\ \A k \in 1..Len(dd.checked) :
             dd.checked[k].verdict = "error" =>
                 (InList(dd.qaPairs[k], dd.result)
                      <=> dd.checked[k].bestScore < SCORE_DUPLICATE)

\* C26: a pair for which no hit of either search clears the similarity
\* floor is kept, and no verdict is asked for it.
C26_BelowFloorKept ==
    (dd.pc = "done" /\ dd.searchable /\ ~dd.caught) =>
        \A k \in 1..Len(dd.checked) :
            (~dd.checked[k].cleared /\ ~dd.checked[k].clearedCombined) =>
                /\ InList(dd.qaPairs[k], dd.result)
                /\ dd.checked[k].verdict = "not_asked"

----------------------------------------------------------------------------
(* Properties of the Knowledge Store *)

\* C16: a search that returns gives at most topK results and each of them
\* has a score of at least the threshold, on the primary path and on the
\* fallback paths alike.
C16_ResultsClearThreshold ==
    (hs.pc = "done" /\ ~hs.threw) =>
        /\ Len(hs.results) <= hs.topK
        /\ \A k \in 1..Len(hs.results) : hs.results[k].score >= hs.threshold

\* C17: a search never ends with an exception, and it returns the empty list
\* when every one of its searches failed.
C17_SearchNeverThrows ==
    hs.pc = "done" =>
        /\ ~hs.threw
        /\ hs.path = "allFail" => hs.results = <<>>

\* C37: initialized becomes true only in a step in which a call found the
\* index or created it; a step in which a call fails rethrows and does not
\* change initialized; and a call made while initialized is false goes on to
\* the existence check.  So initialized implies that the index exists.
C37_InitializedOnlyOnSuccess ==
    [][ /\ (initialized' /\ ~initialized) =>
              \E c \in Callers :
                  /\ ini'[c].pc = "done"
                  /\ \/ ini[c].pc = "exists" /\ indexPresent
                     \/ ini[c].pc = "create" /\ indexPresent'
        /\ \A c \in Callers :
              (ini'[c].pc = "failed" /\ ini[c].pc # "failed") =>
                  /\ initialized' = initialized
                  /\ ini'[c].error # "none"
        /\ \A c \in Callers :
              (ini[c].pc = "idle" /\ ini'[c].pc # "idle") =>
                  ini'[c].pc = IF initialized THEN "done" ELSE "exists"
        /\ initialized' => indexPresent' ]_vars

C37_Witness ==
    /\ ~initialized /\ ~indexPresent
    /\ ini[1].pc = "failed" /\ ini[1].error = "provider"
    /\ ini[2].pc = "exists"

\* C18: of the initialize() calls in flight at most one is about to issue
\* createIndex, no call is rejected because the index was created by another
\* one, and a call made after initialization has completed creates nothing.
C18_AtMostOneCreation ==
    /\ Cardinality({c \in Callers : ini[c].pc = "create"}) <= 1
    /\ \A c \in Callers : ini[c].error # "conflict"
    /\ initialized => \A c \in Callers : ini[c].pc # "exists" \/ indexPresent

\* the documents of a call that carry the id
Written(u, id) == {up[u].docs[i] : i \in {j \in 1..Len(up[u].docs) : up[u].docs[j].id = id}}

C20_EmbeddingPresent ==
    /\ \A d \in DOMAIN store :
         /\ store[d].embedding # NoEmbedding
         /\ store[d].embedding # SuppliedEmbedding =>
                IF store[d].question # <<>> /\ store[d].answer # <<>>
                THEN store[d].embedding =
                         [of |-> "qa", question |-> store[d].question,
                          answer |-> store[d].answer]
                ELSE store[d].embedding =
                         [of |-> "content", question |-> <<>>,
                          answer |-> store[d].content]
    /\ \A u \in Upserters : up[u].error = "embedding" => ~up[u].wrote

C20_Witness ==
    /\ KbId(1) \in DOMAIN store
    /\ store[KbId(1)].question = <<"hours">> /\ store[KbId(1)].answer = <<>>
    /\ store[KbId(1)].embedding.of = "content"
    /\ \E u \in Upserters : up[u].error = "embedding"

====
